---- MODULE Spec2Model ----
(***************************************************************************)
(* A model of the Pith interpreter (pith_runtime.c): the token arena, the  *)
(* dictionary/slot heap, the operand stack, the signal registry, the       *)
(* three-pass loader and the execution engine with its builtins, driven by *)
(* a host that calls the runtime's public entry points.                    *)
(*                                                                         *)
(* Token indices are 0-based as in the C code (Tok(i) reads tokens[i+1]).  *)
(* Dictionaries live in a heap (rt.dicts); a Dict value holds the index of *)
(* its dictionary, so aliasing and freeing are visible.  Index 1 is root.  *)
(* Every operator that models a C function returning bool yields a record  *)
(* [rt, ok]: the runtime after the call and the value returned.            *)
(***************************************************************************)
EXTENDS Integers, Sequences, FiniteSets, TLC

VARIABLES
    proj,     \* name of the loaded project (the source text given to the loader)
    tokens,   \* rt->tokens: the token arena produced by pith_parse
    rt,       \* the PithRuntime: stack, dictionaries, signals, error slot, ...
    calls,    \* number of top-level calls the host has made so far
    last      \* what the host's last call was and what it returned

vars == <<proj, tokens, rt, calls, last>>

(***************************************************************************)
(* Bounds of the model                                                     *)
(***************************************************************************)
\* The operand stack holds PITH_STACK_MAX values (256 in pith_runtime.h); the
\* model runs with a small stack so that "Stack overflow" is reachable.
PITH_STACK_MAX == 6
\* The host makes at most MaxCalls top-level calls in one run.
MaxCalls == 3
\* Nested C calls of the execution engine beyond MaxDepth exhaust the C stack.
MaxDepth == 5
\* The gap a new gap buffer has (32 in pith_runtime.c); the model runs with a
\* small gap.
GAP_BUFFER_MIN_GAP == 2
\* The largest int (2147483647 in C); the model runs with a narrow int so that
\* a cursor plus a delta can go beyond it.
INT_MAX == 7

\* The capacity of a buffer made by new-gap (64 in pith_runtime.c).
GAP_BUFFER_INITIAL_SIZE == 2

\* The longest text of the loading runs, in pieces.
MaxPieces == 5

\* The most slots of the dictionary of the dictionary-loading runs.
MaxSlots == 3

(***************************************************************************)
(* Tokens (PithToken).  text is the word or string text, num is what       *)
(* atof(text) yields for a TOK_NUMBER, line is the source line.            *)
(***************************************************************************)
Token(type, text, num) == [type |-> type, text |-> text, num |-> num, line |-> 0]

W(name) == Token("WORD", name, 0)
N(n)    == Token("NUMBER", "", n)
S(s)    == Token("STRING", s, 0)
T_COLON == Token("COLON", "", 0)
T_DOT   == Token("DOT", "", 0)
T_LB    == Token("LBRACKET", "", 0)
T_RB    == Token("RBRACKET", "", 0)
T_END   == Token("END", "", 0)
T_IF    == Token("IF", "", 0)
T_ELSE  == Token("ELSE", "", 0)
T_DO    == Token("DO", "", 0)
T_TRUE  == Token("TRUE", "", 0)
T_FALSE == Token("FALSE", "", 0)
T_NIL   == Token("NIL", "", 0)
T_EOF   == Token("EOF", "", 0)

RECURSIVE Lines(_, _)
\* The token stream of a source text given line by line: every token of the
\* k-th line carries line number k; the stream ends with TOK_EOF.
Lines(src, k) ==
    IF src = << >> THEN << [T_EOF EXCEPT !.line = k] >>
    ELSE [j \in 1..Len(Head(src)) |-> [Head(src)[j] EXCEPT !.line = k]]
         \o Lines(Tail(src), k + 1)

Tok(i) == tokens[i + 1]
token_count == Len(tokens)

(***************************************************************************)
(* Values (PithValue)                                                      *)
(***************************************************************************)
PITH_NIL        == [type |-> "nil"]
PITH_BOOL(b)    == [type |-> "bool", boolean |-> b]
PITH_NUMBER(n)  == [type |-> "number", number |-> n]
PITH_STRING(s)  == [type |-> "string", string |-> s]
PITH_ARRAY(xs)  == [type |-> "array", items |-> xs]
PITH_BLOCK(s,e) == [type |-> "block", start |-> s, end |-> e]
PITH_DICT(d)    == [type |-> "dict", dict |-> d]
PITH_SIGNAL(g)  == [type |-> "signal", signal |-> g]
PITH_VIEW(v)    == [type |-> "view", view |-> v]

R(r, ok) == [rt |-> r, ok |-> ok]

(***************************************************************************)
(* Error slot                                                              *)
(***************************************************************************)
pith_error(r, msg) == [r EXCEPT !.has_error = TRUE, !.error = msg]

pith_clear_error(r) == [r EXCEPT !.has_error = FALSE, !.error = ""]

(***************************************************************************)
(* Stack operations                                                        *)
(***************************************************************************)
stack_top(r) == Len(r.stack)

pith_push(r, value) ==
    IF stack_top(r) >= PITH_STACK_MAX
    THEN R(pith_error(r, "Stack overflow"), FALSE)
    ELSE R([r EXCEPT !.stack = Append(@, value)], TRUE)

\* pith_pop returns the popped value; the runtime after it is pith_pop_rt.
pith_pop(r) ==
    IF stack_top(r) = 0 THEN PITH_NIL ELSE r.stack[stack_top(r)]

pith_pop_rt(r) ==
    IF stack_top(r) = 0 THEN pith_error(r, "Stack underflow")
    ELSE [r EXCEPT !.stack = SubSeq(@, 1, Len(@) - 1)]

pith_peek(r) == pith_pop(r)

pith_stack_has(r, n) == stack_top(r) >= n

(***************************************************************************)
(* The heap of dictionaries.  A PithDict* is an index into rt.dicts (0 is  *)
(* NULL); freed counts the calls of pith_dict_free on it.  A slot's cached *)
(* field is meaningful only when is_cached (it is PITH_NIL otherwise).     *)
(* rt.ub records that the run has executed undefined behaviour: a read of  *)
(* a freed dictionary or a second free of one.                             *)
(***************************************************************************)
NULL == 0

Slot(name, body_start, body_end, is_cached, cached) ==
    [name |-> name, body_start |-> body_start, body_end |-> body_end,
     is_cached |-> is_cached, cached |-> cached]

\* A slot that is not stored in a dictionary (the temporaries of the engine).
NULL_SLOT == [dict |-> NULL, idx |-> 0]

NewDict(r) == Len(r.dicts) + 1

pith_dict_new(r, name) ==
    [r EXCEPT !.dicts = Append(@, [name |-> name, parent |-> NULL,
                                   slots |-> << >>, freed |-> 0])]

\* A dereference of dictionary d by the C code.
Touch(r, d) ==
    IF d # NULL /\ r.dicts[d].freed > 0 THEN [r EXCEPT !.ub = TRUE] ELSE r

pith_dict_set_parent(r, d, parent) == [r EXCEPT !.dicts[d].parent = parent]

pith_dict_add_slot(r, d, name, body_start, body_end) ==
    [r EXCEPT !.dicts[d].slots =
        Append(@, Slot(name, body_start, body_end, FALSE, PITH_NIL))]

\* Index of the first local slot called name, 0 when there is none.
LocalIndex(slots, name) ==
    IF \E i \in 1..Len(slots) : slots[i].name = name
    THEN CHOOSE i \in 1..Len(slots) :
            /\ slots[i].name = name
            /\ \A j \in 1..(i - 1) : slots[j].name # name
    ELSE 0

\* A lookup that stops at the dictionary's own slots.
pith_dict_lookup_own(r, d, name) ==
    LET i == LocalIndex(r.dicts[d].slots, name) IN
    IF i # 0 THEN [dict |-> d, idx |-> i] ELSE NULL_SLOT

RECURSIVE pith_dict_lookup(_, _, _)
pith_dict_lookup(r, d, name) ==
    LET i == LocalIndex(r.dicts[d].slots, name) IN
    IF i # 0 THEN [dict |-> d, idx |-> i]
    ELSE IF r.dicts[d].parent # NULL
         THEN pith_dict_lookup(r, r.dicts[d].parent, name)
         ELSE NULL_SLOT

RECURSIVE LookupTouch(_, _, _)
\* The dictionaries pith_dict_lookup reads on its way count as dereferenced.
LookupTouch(r, d, name) ==
    LET r1 == Touch(r, d) IN
    IF LocalIndex(r.dicts[d].slots, name) # 0 \/ r.dicts[d].parent = NULL
    THEN r1
    ELSE LookupTouch(r1, r.dicts[d].parent, name)

SlotAt(r, ref) == r.dicts[ref.dict].slots[ref.idx]

(***************************************************************************)
(* Value copy and free.  Strings, arrays and blocks are values of the      *)
(* model, so a deep copy of one is the same model value; View, Dict and    *)
(* Signal copies alias the same object, as in the C code.                  *)
(***************************************************************************)
pith_value_copy(value) ==
    CASE value.type \in {"nil", "bool", "number"} -> value
      [] value.type = "string" -> PITH_STRING(value.string)
      [] value.type = "array"  -> PITH_ARRAY(value.items)
      [] value.type = "block"  -> PITH_BLOCK(value.start, value.end)
      [] OTHER -> value

RECURSIVE pith_value_free(_, _), pith_dict_free(_, _), FreeItems(_, _), FreeSlots(_, _)

pith_value_free(r, value) ==
    CASE value.type = "array" -> FreeItems(r, value.items)
      [] value.type = "dict"  -> pith_dict_free(r, value.dict)
      [] OTHER -> r

\* pith_array_free: every item is freed.
FreeItems(r, items) ==
    IF items = << >> THEN r
    ELSE FreeItems(pith_value_free(r, Head(items)), Tail(items))

\* The loop of pith_dict_free over the slots: cached values are freed.
FreeSlots(r, slots) ==
    IF slots = << >> THEN r
    ELSE FreeSlots(IF Head(slots).is_cached
                   THEN pith_value_free(r, Head(slots).cached) ELSE r,
                   Tail(slots))

pith_dict_free(r, d) ==
    IF d = NULL THEN r
    ELSE IF r.dicts[d].freed > 0
         THEN [r EXCEPT !.ub = TRUE, !.dicts[d].freed = @ + 1]
         ELSE FreeSlots([r EXCEPT !.dicts[d].freed = 1], r.dicts[d].slots)

(***************************************************************************)
(* Signals.  A PithSignal* is an index into rt.signals, which is also the  *)
(* registry all_signals: both callers of pith_signal_new pass the runtime. *)
(***************************************************************************)
NewSignal(r) == Len(r.signals) + 1

pith_signal_new(r, initial) ==
    [r EXCEPT !.signals = Append(@, [value |-> initial, dirty |-> FALSE])]

\* A write that stores the value and leaves the dirty flag as it was.
pith_signal_set_quiet(r, sig, value) ==
    LET r1 == pith_value_free(r, r.signals[sig].value) IN
    [r1 EXCEPT !.signals[sig].value = value]

pith_signal_set(r, sig, value) ==
    LET r1 == pith_value_free(r, r.signals[sig].value) IN
    [r1 EXCEPT !.signals[sig] = [value |-> value, dirty |-> TRUE]]

pith_runtime_has_dirty_signals(r) ==
    \E i \in 1..Len(r.signals) : r.signals[i].dirty

pith_runtime_clear_dirty(r) ==
    [r EXCEPT !.signals = [i \in 1..Len(@) |-> [@[i] EXCEPT !.dirty = FALSE]]]

(***************************************************************************)
(* Dictionary updates used by the map builtins                             *)
(***************************************************************************)
pith_dict_set_value(r, d, name, value) ==
    LET i == LocalIndex(r.dicts[d].slots, name) IN
    IF i # 0
    THEN LET old == r.dicts[d].slots[i]
             r1  == IF old.is_cached THEN pith_value_free(r, old.cached) ELSE r
         IN [r1 EXCEPT !.dicts[d].slots[i] = Slot(old.name, 0, 0, TRUE, value)]
    ELSE [r EXCEPT !.dicts[d].slots = Append(@, Slot(name, 0, 0, TRUE, value))]

RECURSIVE CopySlots(_, _, _)
\* The loop of pith_dict_copy: slot by slot into the dictionary copy.
CopySlots(r, copy, slots) ==
    IF slots = << >> THEN r
    ELSE LET s == Head(slots) IN
         CopySlots(IF s.is_cached
                   THEN pith_dict_set_value(r, copy, s.name, pith_value_copy(s.cached))
                   ELSE pith_dict_add_slot(r, copy, s.name, s.body_start, s.body_end),
                   copy, Tail(slots))

\* pith_dict_copy(src): the copy is dictionary NewDict(r) of the result.
pith_dict_copy(r, src) ==
    LET copy == NewDict(r)
        r1   == pith_dict_set_parent(pith_dict_new(Touch(r, src), r.dicts[src].name),
                                     copy, r.dicts[src].parent)
    IN CopySlots(r1, copy, r.dicts[src].slots)

pith_dict_remove_slot(r, d, name) ==
    LET i == LocalIndex(r.dicts[d].slots, name) IN
    IF i = 0 THEN r
    ELSE LET old == r.dicts[d].slots[i]
             r1  == IF old.is_cached THEN pith_value_free(r, old.cached) ELSE r
         IN [r1 EXCEPT !.dicts[d].slots =
                SubSeq(@, 1, i - 1) \o SubSeq(@, i + 1, Len(@))]

\* pith_find_dict: the first root slot of that name decides; a root slot of
\* that name that caches no Dict is skipped, a later one may match.
pith_find_dict(r, name) ==
    LET rs == r.dicts[1].slots
        hit(i) == rs[i].name = name /\ rs[i].is_cached /\ rs[i].cached.type = "dict"
    IN IF \E i \in 1..Len(rs) : hit(i)
       THEN rs[CHOOSE i \in 1..Len(rs) : hit(i) /\ \A j \in 1..(i - 1) : ~hit(j)].cached.dict
       ELSE NULL

(***************************************************************************)
(* Runtime construction                                                    *)
(***************************************************************************)
ROOT == 1

\* log is the model's record of what the engine did during the current
\* top-level call (it is not a field of PithRuntime); depth counts the nested
\* C calls of the engine; crashed says the process has died.
pith_runtime_new ==
    [stack |-> << >>, has_error |-> FALSE, error |-> "",
     dicts |-> << [name |-> "root", parent |-> NULL, slots |-> << >>, freed |-> 0] >>,
     signals |-> << >>, current_dict |-> ROOT, current_view |-> PITH_NIL,
     ub |-> FALSE, crashed |-> FALSE, depth |-> 0, log |-> << >>]

(***************************************************************************)
(* The loader: pith_runtime_load_string after pith_parse                   *)
(***************************************************************************)
IsWordColon(j, limit) ==
    /\ Tok(j).type = "WORD"
    /\ j + 1 < limit
    /\ Tok(j + 1).type = "COLON"

RECURSIVE IsMultiline(_, _)
\* The look-ahead of the structural pass: does the body of the slot declared
\* on slot_line reach a later line before an END or the next WORD COLON?
IsMultiline(k, slot_line) ==
    IF k >= token_count THEN FALSE
    ELSE IF Tok(k).type = "END" THEN FALSE
    ELSE IF IsWordColon(k, token_count) THEN FALSE
    ELSE IF Tok(k).line > slot_line THEN TRUE
    ELSE IsMultiline(k + 1, slot_line)

RECURSIVE FindBlockEnd(_, _, _)
\* The scan for the closing END of a top-level block.  slot_open is the set
\* of depths d with slot_open[d] set.  Yields the index of the END, or -1
\* when TOK_EOF comes first (and -2 when the scan runs off the arena).
FindBlockEnd(j, depth, slot_open) ==
    IF j >= token_count THEN -2
    ELSE LET t == Tok(j).type IN
         IF t \in {"DO", "IF"} THEN FindBlockEnd(j + 1, depth + 1, slot_open)
         ELSE IF IsWordColon(j, token_count)
         THEN FindBlockEnd(j + 2, depth,
                           IF IsMultiline(j + 2, Tok(j).line)
                           THEN slot_open \cup {depth} ELSE slot_open)
         ELSE IF t = "END"
         THEN IF depth \in slot_open
              THEN FindBlockEnd(j + 1, depth, slot_open \ {depth})
              ELSE IF depth - 1 = 0 THEN j
                   ELSE FindBlockEnd(j + 1, depth - 1, slot_open)
         ELSE IF t = "EOF" THEN -1
         ELSE FindBlockEnd(j + 1, depth, slot_open)

RECURSIVE SlotBodyEnd(_, _, _)
\* The inner scan of the dictionary pass: where the body of a slot stops.
SlotBodyEnd(i, block_end, slot_depth) ==
    IF i >= block_end THEN i
    ELSE LET t == Tok(i).type IN
         IF t \in {"DO", "IF"} THEN SlotBodyEnd(i + 1, block_end, slot_depth + 1)
         ELSE IF t = "END"
         THEN IF slot_depth > 0 THEN SlotBodyEnd(i + 1, block_end, slot_depth - 1)
              ELSE i
         ELSE IF slot_depth = 0 /\ IsWordColon(i, block_end) THEN i
         ELSE SlotBodyEnd(i + 1, block_end, slot_depth)

RECURSIVE ParseSlots(_, _, _, _)
\* The dictionary pass over [i, block_end): one slot per WORD COLON.
ParseSlots(r, dict, i, block_end) ==
    IF i >= block_end THEN r
    ELSE IF IsWordColon(i, block_end)
    THEN LET body_start == i + 2
             body_end   == SlotBodyEnd(body_start, block_end, 0)
             next       == IF body_end < block_end /\ Tok(body_end).type = "END"
                           THEN body_end + 1 ELSE body_end
         IN ParseSlots(pith_dict_add_slot(r, dict, Tok(i).text, body_start, body_end),
                       dict, next, block_end)
    ELSE ParseSlots(r, dict, i + 1, block_end)

pith_add_dict_slot(r, dict, body_start, body_end) ==
    [r EXCEPT !.dicts[ROOT].slots =
        Append(@, Slot(r.dicts[dict].name, body_start, body_end, TRUE, PITH_DICT(dict)))]

RECURSIVE LoadBlocks(_, _)
\* First pass: the top-level WORD COLON blocks from token i on.
LoadBlocks(r, i) ==
    IF i >= token_count \/ Tok(i).type = "EOF" THEN R(r, TRUE)
    ELSE IF IsWordColon(i, token_count)
    THEN LET block_name  == Tok(i).text
             block_start == i + 2
             scan        == FindBlockEnd(block_start, 1, {})
             block_end   == IF scan = -2 THEN block_start ELSE scan
             is_dictionary ==
                 /\ block_start < block_end
                 /\ Tok(block_start).type = "WORD"
                 /\ block_start + 1 < block_end
                 /\ Tok(block_start + 1).type = "COLON"
         IN IF scan = -1
            THEN R(pith_error(r, "Unexpected end of file in block '" \o block_name
                                 \o "'"), FALSE)
            ELSE IF is_dictionary
            THEN LET dict == NewDict(r)
                     r1 == pith_add_dict_slot(pith_dict_new(r, block_name), dict,
                                              block_start, block_end)
                 IN LoadBlocks(ParseSlots(r1, dict, block_start, block_end),
                               block_end + 1)
            ELSE LoadBlocks(pith_dict_add_slot(r, ROOT, block_name, block_start, block_end),
                            block_end + 1)
    ELSE LoadBlocks(r, i + 1)

IsDictSlot(slot) == slot.is_cached /\ slot.cached.type = "dict"

\* Second pass, for one root slot: the dictionary's own "parent" slot names
\* its parent when its body starts with a word that names a dictionary.
ResolveParent(r, d) ==
    LET dict_slot == r.dicts[ROOT].slots[d] IN
    IF ~IsDictSlot(dict_slot) THEN r
    ELSE LET dict == dict_slot.cached.dict
             s    == LocalIndex(r.dicts[dict].slots, "parent")
         IN IF s = 0 THEN r
            ELSE LET parent_slot == r.dicts[dict].slots[s] IN
                 IF parent_slot.body_start < parent_slot.body_end
                    /\ Tok(parent_slot.body_start).type = "WORD"
                    /\ pith_find_dict(r, Tok(parent_slot.body_start).text) # NULL
                 THEN pith_dict_set_parent(r, dict,
                          pith_find_dict(r, Tok(parent_slot.body_start).text))
                 ELSE r

RECURSIVE ResolveParents(_, _)
ResolveParents(r, d) ==
    IF d > Len(r.dicts[ROOT].slots) THEN r
    ELSE ResolveParents(ResolveParent(r, d), d + 1)

IsLiteral(tok) == tok.type \in {"STRING", "NUMBER", "TRUE", "FALSE", "NIL"}

\* The value a literal token stands for (atof of a number's text is tok.num).
LiteralValue(tok) ==
    CASE tok.type = "STRING" -> PITH_STRING(tok.text)
      [] tok.type = "NUMBER" -> PITH_NUMBER(tok.num)
      [] tok.type = "TRUE"   -> PITH_BOOL(TRUE)
      [] tok.type = "FALSE"  -> PITH_BOOL(FALSE)
      [] OTHER               -> PITH_NIL

\* Third pass, for slot s of dictionary dict: a one-literal body is cached;
\* a body "<literal> signal" becomes a cached Signal registered with rt.
CacheSlot(r, dict, s) ==
    LET slot == r.dicts[dict].slots[s] IN
    IF slot.is_cached THEN r
    ELSE LET r1 == IF slot.body_end - slot.body_start = 1
                      /\ IsLiteral(Tok(slot.body_start))
                   THEN [r EXCEPT !.dicts[dict].slots[s].is_cached = TRUE,
                                  !.dicts[dict].slots[s].cached =
                                      LiteralValue(Tok(slot.body_start))]
                   ELSE r
         IN IF /\ slot.body_end - slot.body_start = 2
               /\ Tok(slot.body_start + 1).type = "WORD"
               /\ Tok(slot.body_start + 1).text = "signal"
               /\ IsLiteral(Tok(slot.body_start))
            THEN [pith_signal_new(r1, LiteralValue(Tok(slot.body_start)))
                    EXCEPT !.dicts[dict].slots[s].is_cached = TRUE,
                           !.dicts[dict].slots[s].cached = PITH_SIGNAL(NewSignal(r1))]
            ELSE r1

RECURSIVE CacheSlots(_, _, _), CacheDicts(_, _)
CacheSlots(r, dict, s) ==
    IF s > Len(r.dicts[dict].slots) THEN r
    ELSE CacheSlots(CacheSlot(r, dict, s), dict, s + 1)

CacheDicts(r, d) ==
    IF d > Len(r.dicts[ROOT].slots) THEN r
    ELSE CacheDicts(IF IsDictSlot(r.dicts[ROOT].slots[d])
                    THEN CacheSlots(r, r.dicts[ROOT].slots[d].cached.dict, 1)
                    ELSE r,
                    d + 1)

pith_runtime_load_string(r) ==
    LET first == LoadBlocks(r, 0) IN
    IF ~first.ok THEN first
    ELSE R([CacheDicts(ResolveParents(first.rt, 1), 1) EXCEPT !.current_dict = ROOT],
           TRUE)

(***************************************************************************)
(* The model's record of a call (rt.log): one event per thing the engine   *)
(* did, in order.                                                          *)
(*   tok       the loop of pith_execute_slot dispatched the token at       *)
(*   fail      a builtin, pith_execute_word or pith_execute_slot returned  *)
(*             false                                                       *)
(*   builtin, slot, dict, unknown                                          *)
(*             how pith_execute_word resolved name: dict is the dictionary *)
(*             the slot was found in (or the dictionary named), aux the    *)
(*             index of the slot in it                                     *)
(*   sigwrite  signal aux was set to val;  sigread  a read of signal aux   *)
(*             pushed val;  nosignal  name! named no signal                *)
(*   if        the if at popped the condition val; name is the branch run  *)
(*   do        the do at pushed (ok) the block val and set i to aux        *)
(*   collect   the array constructor at, having run its interior, goes on  *)
(*             to collect what lies above the recorded height aux          *)
(*   array     the constructor at has collected, and pushed (ok) val       *)
(*   block     pith_execute_block was entered for the block val            *)
(*   blockend  that call returned                                          *)
(* cur, depth and stack are the current dictionary, the nesting depth of   *)
(* the engine and the operand stack when the event was recorded.           *)
(***************************************************************************)
Ev(r, ev, at, name, dict, aux, val, ok) ==
    [ev |-> ev, at |-> at, name |-> name, dict |-> dict, aux |-> aux, val |-> val,
     ok |-> ok, cur |-> r.current_dict, depth |-> r.depth, stack |-> r.stack]

Log(r, e) == [r EXCEPT !.log = Append(@, e)]

\* "return false": the failure is recorded.
Failed(r) == R(Log(r, Ev(r, "fail", 0, "", NULL, 0, PITH_NIL, FALSE)), FALSE)

\* The C call does not return: the process has died.
Crash(r) == [r EXCEPT !.crashed = TRUE]

RECURSIVE pith_execute_slot(_, _), pith_execute_word(_, _), pith_execute_block(_, _)

(***************************************************************************)
(* Views.  The style record is reduced to its bold entry; the other        *)
(* cascading style slots are applied by the same pattern.                  *)
(***************************************************************************)
View(kind, content, on_click) ==
    [kind |-> kind, content |-> content, on_click |-> on_click,
     has_bold |-> FALSE, bold |-> FALSE]

pith_view_text(content) == View("text", content, PITH_NIL)

pith_view_button(label, on_click) == View("button", label, on_click)

pith_apply_dict_styles(r, dict, view) ==
    LET bold_slot == pith_dict_lookup(r, dict, "bold") IN
    IF bold_slot # NULL_SLOT /\ SlotAt(r, bold_slot).is_cached
       /\ SlotAt(r, bold_slot).cached.type = "bool"
    THEN [view EXCEPT !.has_bold = TRUE, !.bold = SlotAt(r, bold_slot).cached.boolean]
    ELSE view

(***************************************************************************)
(* Builtins: stack, arithmetic, comparison                                 *)
(***************************************************************************)
builtin_dup(r) ==
    IF ~pith_stack_has(r, 1) THEN R(r, FALSE)
    ELSE pith_push(r, pith_value_copy(pith_peek(r)))

builtin_drop(r) ==
    IF ~pith_stack_has(r, 1) THEN R(r, FALSE)
    ELSE R(pith_value_free(pith_pop_rt(r), pith_pop(r)), TRUE)

builtin_swap(r) ==
    IF ~pith_stack_has(r, 2) THEN R(r, FALSE)
    ELSE LET b  == pith_pop(r)
             r1 == pith_pop_rt(r)
             a  == pith_pop(r1)
             r2 == pith_pop_rt(r1)
         IN R(pith_push(pith_push(r2, b).rt, a).rt, TRUE)

builtin_add(r) ==
    IF ~pith_stack_has(r, 2) THEN R(r, FALSE)
    ELSE LET b  == pith_pop(r)
             r1 == pith_pop_rt(r)
             a  == pith_pop(r1)
             r2 == pith_pop_rt(r1)
         IN IF a.type = "number" /\ b.type = "number"
            THEN pith_push(r2, PITH_NUMBER(a.number + b.number))
            ELSE IF a.type = "string" /\ b.type = "string"
            THEN pith_push(r2, PITH_STRING(a.string \o b.string))
            ELSE R(pith_error(r2, "Cannot add values of these types"), FALSE)

pith_value_equal(a, b) ==
    IF a.type # b.type THEN FALSE
    ELSE CASE a.type = "nil"    -> TRUE
           [] a.type = "bool"   -> a.boolean = b.boolean
           [] a.type = "number" -> a.number = b.number
           [] a.type = "string" -> a.string = b.string
           [] OTHER             -> FALSE

builtin_equal(r) ==
    IF ~pith_stack_has(r, 2) THEN R(r, FALSE)
    ELSE LET b  == pith_pop(r)
             r1 == pith_pop_rt(r)
             a  == pith_pop(r1)
             r2 == pith_pop_rt(r1)
         IN pith_push(pith_value_free(pith_value_free(r2, a), b),
                      PITH_BOOL(pith_value_equal(a, b)))

\* The text printed is not part of the model.
builtin_print(r) ==
    IF ~pith_stack_has(r, 1) THEN R(r, FALSE)
    ELSE R(pith_value_free(pith_pop_rt(r), pith_pop(r)), TRUE)

(***************************************************************************)
(* Builtins: views and signals                                             *)
(***************************************************************************)
builtin_text(r) ==
    IF ~pith_stack_has(r, 1) THEN R(r, FALSE)
    ELSE LET a == pith_pop(r)
             r1 == pith_pop_rt(r)
         IN IF a.type # "string" THEN R(pith_error(r1, "text requires string"), FALSE)
            ELSE pith_push(r1, PITH_VIEW(pith_view_text(a.string)))

builtin_signal(r) ==
    IF ~pith_stack_has(r, 1) THEN R(r, FALSE)
    ELSE LET r1 == pith_signal_new(pith_pop_rt(r), pith_pop(r))
         IN pith_push(r1, PITH_SIGNAL(Len(r1.signals)))

builtin_button(r) ==
    IF ~pith_stack_has(r, 1) THEN R(r, FALSE)
    ELSE LET top      == pith_peek(r)
             is_block == top.type = "block"
             on_click == IF is_block THEN top ELSE PITH_NIL
             r1       == IF is_block THEN pith_pop_rt(r) ELSE r
         IN IF is_block /\ ~pith_stack_has(r1, 1)
            THEN R(pith_error(r1, "button requires label"), FALSE)
            ELSE LET label_val == pith_pop(r1)
                     r2        == pith_pop_rt(r1)
                 IN IF label_val.type # "string"
                    THEN R(pith_error(r2, "button requires string label"), FALSE)
                    ELSE pith_push(r2, PITH_VIEW(pith_view_button(label_val.string,
                                                                  on_click)))

(***************************************************************************)
(* Builtins: maps (dictionaries used as persistent maps)                   *)
(***************************************************************************)
builtin_map_new(r) == pith_push(pith_dict_new(r, ""), PITH_DICT(NewDict(r)))

\* The checks shared by get, has and remove: ( map key -- ... ).
MapKeyCheck(r2, map, key, who) ==
    IF map.type # "dict"
    THEN pith_error(pith_value_free(pith_value_free(r2, map), key),
                    who \o " requires a map")
    ELSE IF key.type # "string"
    THEN pith_error(pith_value_free(pith_value_free(r2, map), key),
                    who \o " requires string key")
    ELSE r2

builtin_map_get(r) ==
    IF ~pith_stack_has(r, 2) THEN R(r, FALSE)
    ELSE LET key == pith_pop(r)
             r1  == pith_pop_rt(r)
             map == pith_pop(r1)
             r2  == pith_pop_rt(r1)
         IN IF map.type # "dict" \/ key.type # "string"
            THEN R(MapKeyCheck(r2, map, key, "get"), FALSE)
            ELSE LET slot == pith_dict_lookup(r2, map.dict, key.string)
                     result == IF slot # NULL_SLOT /\ SlotAt(r2, slot).is_cached
                               THEN pith_value_copy(SlotAt(r2, slot).cached)
                               ELSE PITH_NIL
                 IN pith_push(LookupTouch(r2, map.dict, key.string), result)

builtin_map_set(r) ==
    IF ~pith_stack_has(r, 3) THEN R(r, FALSE)
    ELSE LET key   == pith_pop(r)
             r1    == pith_pop_rt(r)
             map   == pith_pop(r1)
             r2    == pith_pop_rt(r1)
             value == pith_pop(r2)
             r3    == pith_pop_rt(r2)
         IN IF map.type # "dict" \/ key.type # "string"
            THEN R(pith_value_free(MapKeyCheck(r3, map, key, "set"), value), FALSE)
            ELSE LET new_dict == NewDict(r3)
                     r4 == pith_dict_set_value(pith_dict_copy(r3, map.dict),
                                               new_dict, key.string, value)
                 IN pith_push(r4, PITH_DICT(new_dict))

builtin_map_has(r) ==
    IF ~pith_stack_has(r, 2) THEN R(r, FALSE)
    ELSE LET key == pith_pop(r)
             r1  == pith_pop_rt(r)
             map == pith_pop(r1)
             r2  == pith_pop_rt(r1)
         IN IF map.type # "dict" \/ key.type # "string"
            THEN R(MapKeyCheck(r2, map, key, "has"), FALSE)
            ELSE pith_push(LookupTouch(r2, map.dict, key.string),
                           PITH_BOOL(pith_dict_lookup(r2, map.dict, key.string)
                                     # NULL_SLOT))

builtin_map_remove(r) ==
    IF ~pith_stack_has(r, 2) THEN R(r, FALSE)
    ELSE LET key == pith_pop(r)
             r1  == pith_pop_rt(r)
             map == pith_pop(r1)
             r2  == pith_pop_rt(r1)
         IN IF map.type # "dict" \/ key.type # "string"
            THEN R(MapKeyCheck(r2, map, key, "remove"), FALSE)
            ELSE LET new_dict == NewDict(r2)
                     r3 == pith_dict_remove_slot(pith_dict_copy(r2, map.dict),
                                                 new_dict, key.string)
                 IN pith_push(r3, PITH_DICT(new_dict))

RECURSIVE MergeSlots(_, _, _)
\* The loop of builtin_map_merge over the slots of map2.
MergeSlots(r, new_dict, slots) ==
    IF slots = << >> THEN r
    ELSE MergeSlots(IF Head(slots).is_cached
                    THEN pith_dict_set_value(r, new_dict, Head(slots).name,
                                             pith_value_copy(Head(slots).cached))
                    ELSE r,
                    new_dict, Tail(slots))

builtin_map_merge(r) ==
    IF ~pith_stack_has(r, 2) THEN R(r, FALSE)
    ELSE LET map2 == pith_pop(r)
             r1   == pith_pop_rt(r)
             map1 == pith_pop(r1)
             r2   == pith_pop_rt(r1)
         IN IF map1.type # "dict" \/ map2.type # "dict"
            THEN R(pith_value_free(pith_value_free(
                       pith_error(r2, "merge requires two maps"), map1), map2), FALSE)
            ELSE LET new_dict == NewDict(r2)
                     r3 == MergeSlots(Touch(pith_dict_copy(r2, map1.dict), map2.dict),
                                      new_dict, r2.dicts[map2.dict].slots)
                 IN pith_push(r3, PITH_DICT(new_dict))

(***************************************************************************)
(* Builtins: higher-order array operations.  The loops ignore the result   *)
(* of pith_push and of pith_execute_block, as the C code does.             *)
(***************************************************************************)
\* A test that keeps every element.
keep_all(result) == TRUE

\* The truthiness test applied to a block's result by filter.
keep(result) ==
    IF result.type = "bool" THEN result.boolean
    ELSE IF result.type = "number" THEN result.number # 0
    ELSE result.type # "nil"

\* The argument checks shared by each, map and filter: ( array block -- ... ).
ArrayBlockCheck(r2, arr_val, block_val, who) ==
    IF arr_val.type # "array"
    THEN pith_error(r2, who \o " requires array as first argument")
    ELSE IF block_val.type # "block"
    THEN pith_error(r2, who \o " requires block as second argument")
    ELSE r2

RECURSIVE EachLoop(_, _, _)
EachLoop(r, items, block) ==
    IF items = << >> \/ r.crashed THEN r
    ELSE EachLoop(pith_execute_block(pith_push(r, pith_value_copy(Head(items))).rt,
                                     block).rt,
                  Tail(items), block)

builtin_each(r) ==
    IF ~pith_stack_has(r, 2) THEN R(r, FALSE)
    ELSE LET block_val == pith_pop(r)
             r1        == pith_pop_rt(r)
             arr_val   == pith_pop(r1)
             r2        == pith_pop_rt(r1)
         IN IF arr_val.type # "array" \/ block_val.type # "block"
            THEN R(pith_value_free(pith_value_free(
                       ArrayBlockCheck(r2, arr_val, block_val, "each"),
                       arr_val), block_val), FALSE)
            ELSE R(pith_value_free(EachLoop(r2, arr_val.items, block_val), arr_val),
                   TRUE)

RECURSIVE MapLoop(_, _, _, _)
\* The block has run on the first of items and left r1: its result, if there
\* is one, is popped into the output.
MapCollect(r1, items, block, output) ==
    IF pith_stack_has(r1, 1)
    THEN MapLoop(pith_pop_rt(r1), Tail(items), block, Append(output, pith_pop(r1)))
    ELSE MapLoop(r1, Tail(items), block, output)

\* Yields the runtime and the output array after the loop of builtin_map.
MapLoop(r, items, block, output) ==
    IF items = << >> \/ r.crashed THEN [rt |-> r, output |-> output]
    ELSE MapCollect(pith_execute_block(pith_push(r, pith_value_copy(Head(items))).rt,
                                       block).rt,
                    items, block, output)

\* The end of map and filter: the input array is freed, the output pushed.
PushOutput(done, arr_val) ==
    pith_push(pith_value_free(done.rt, arr_val), PITH_ARRAY(done.output))

builtin_map(r) ==
    IF ~pith_stack_has(r, 2) THEN R(r, FALSE)
    ELSE LET block_val == pith_pop(r)
             r1        == pith_pop_rt(r)
             arr_val   == pith_pop(r1)
             r2        == pith_pop_rt(r1)
         IN IF arr_val.type # "array" \/ block_val.type # "block"
            THEN R(ArrayBlockCheck(r2, arr_val, block_val, "map"), FALSE)
            ELSE PushOutput(MapLoop(r2, arr_val.items, block_val, << >>), arr_val)

RECURSIVE FilterLoop(_, _, _, _)
\* The block has run on the first of items and left r1: its result, if there
\* is one, is popped and decides whether a copy of the item is kept.
FilterCollect(r1, items, block, output) ==
    IF pith_stack_has(r1, 1)
    THEN FilterLoop(pith_value_free(pith_pop_rt(r1), pith_pop(r1)),
                    Tail(items), block,
                    IF keep(pith_pop(r1))
                    THEN Append(output, pith_value_copy(Head(items)))
                    ELSE output)
    ELSE FilterLoop(r1, Tail(items), block, output)

FilterLoop(r, items, block, output) ==
    IF items = << >> \/ r.crashed THEN [rt |-> r, output |-> output]
    ELSE FilterCollect(
             pith_execute_block(pith_push(r, pith_value_copy(Head(items))).rt,
                                block).rt,
             items, block, output)

builtin_filter(r) ==
    IF ~pith_stack_has(r, 2) THEN R(r, FALSE)
    ELSE LET block_val == pith_pop(r)
             r1        == pith_pop_rt(r)
             arr_val   == pith_pop(r1)
             r2        == pith_pop_rt(r1)
         IN IF arr_val.type # "array" \/ block_val.type # "block"
            THEN R(pith_value_free(pith_value_free(
                       ArrayBlockCheck(r2, arr_val, block_val, "filter"),
                       arr_val), block_val), FALSE)
            ELSE PushOutput(FilterLoop(r2, arr_val.items, block_val, << >>), arr_val)

(***************************************************************************)
(* The builtin table.  BuiltinNames are the entries of builtins[] that the *)
(* model carries; find_builtin says whether name is one of them.           *)
(***************************************************************************)
BuiltinNames ==
    {"dup", "drop", "swap", "add", "=", "print", "text", "signal", "button",
     "new-map", "get", "set", "has", "remove", "merge", "each", "map", "filter"}

\* A table without the entry for dup.
find_builtin_without_dup(name) == name \in BuiltinNames \ {"dup"}

find_builtin(name) == name \in BuiltinNames

\* builtin(rt) for the function find_builtin(name) returned.
CallBuiltin(r, name) ==
    CASE name = "dup"     -> builtin_dup(r)
      [] name = "drop"    -> builtin_drop(r)
      [] name = "swap"    -> builtin_swap(r)
      [] name = "add"     -> builtin_add(r)
      [] name = "="       -> builtin_equal(r)
      [] name = "print"   -> builtin_print(r)
      [] name = "text"    -> builtin_text(r)
      [] name = "signal"  -> builtin_signal(r)
      [] name = "button"  -> builtin_button(r)
      [] name = "new-map" -> builtin_map_new(r)
      [] name = "get"     -> builtin_map_get(r)
      [] name = "set"     -> builtin_map_set(r)
      [] name = "has"     -> builtin_map_has(r)
      [] name = "remove"  -> builtin_map_remove(r)
      [] name = "merge"   -> builtin_map_merge(r)
      [] name = "each"    -> builtin_each(r)
      [] name = "map"     -> builtin_map(r)
      [] name = "filter"  -> builtin_filter(r)

(***************************************************************************)
(* The execution engine                                                    *)
(***************************************************************************)
\* name ends in '!' and is longer than that one character.
IsSignalWrite(name) ==
    Len(name) > 1 /\ SubSeq(name, Len(name), Len(name)) = "!"

\* name without its last character.
StripBang(name) == SubSeq(name, 1, Len(name) - 1)

\* Pop the value on top of the stack and set signal sig to it.
SignalWrite(r, sig, name) ==
    LET new_val == pith_pop(r)
        r1      == pith_signal_set(pith_pop_rt(r), sig, new_val)
    IN Log(r1, Ev(r1, "sigwrite", 0, name, NULL, sig, new_val, TRUE))

\* "rt->current_dict = saved_dict" once a nested call has returned.
RestoreDict(res, saved_dict) ==
    R([res.rt EXCEPT !.current_dict = saved_dict], res.ok)

\* Run slot with dict as the current dictionary, then restore the current one.
ExecuteIn(r, dict, slot) ==
    RestoreDict(pith_execute_slot([r EXCEPT !.current_dict = dict], slot),
                r.current_dict)

\* The view a ui slot has left on top of the stack is styled by its dictionary.
StyleView(res, dict) ==
    IF res.ok /\ stack_top(res.rt) > 0 /\ pith_peek(res.rt).type = "view"
    THEN R([res.rt EXCEPT !.stack[stack_top(res.rt)] =
                PITH_VIEW(pith_apply_dict_styles(res.rt, dict,
                                                 pith_peek(res.rt).view))],
           TRUE)
    ELSE res

\* A dictionary word with a ui slot: run ui with dict current, restore the
\* current dictionary, style the view left on top of the stack.
ExecuteUi(r, dict, ui_slot) ==
    StyleView(ExecuteIn(r, dict, SlotAt(r, ui_slot)), dict)

\* A word that names dictionary dict: its ui slot is run, or dict is pushed.
ExecuteDictWord(r, dict) ==
    LET ui_slot == pith_dict_lookup(r, dict, "ui")
        r0      == LookupTouch(r, dict, "ui")
    IN IF ui_slot # NULL_SLOT THEN ExecuteUi(r0, dict, ui_slot)
       ELSE pith_push(r0, PITH_DICT(dict))

\* "return result" of pith_execute_word: a failure goes on the record.
Returned(result) == IF result.ok THEN result ELSE Failed(result.rt)

pith_execute_word(r, name) ==
    IF IsSignalWrite(name)
    THEN LET slot_name == StripBang(name)
             found == IF r.current_dict # NULL
                      THEN pith_dict_lookup(r, r.current_dict, slot_name)
                      ELSE NULL_SLOT
             slot  == IF found # NULL_SLOT THEN found
                      ELSE pith_dict_lookup(r, ROOT, slot_name)
         IN IF slot # NULL_SLOT /\ SlotAt(r, slot).is_cached
               /\ SlotAt(r, slot).cached.type = "signal"
            THEN IF ~pith_stack_has(r, 1)
                 THEN Failed(pith_error(r, "Signal write requires value on stack"))
                 ELSE R(SignalWrite(r, SlotAt(r, slot).cached.signal, name), TRUE)
            ELSE LET r1 == pith_error(r, "Unknown signal: " \o name)
                 IN Failed(Log(r1, Ev(r1, "nosignal", 0, name, NULL, 0, PITH_NIL, FALSE)))
    ELSE IF find_builtin(name)
    THEN Returned(CallBuiltin(Log(r, Ev(r, "builtin", 0, name, NULL, 0,
                                        PITH_NIL, TRUE)), name))
    ELSE LET slot == IF r.current_dict # NULL
                     THEN pith_dict_lookup(r, r.current_dict, name)
                     ELSE NULL_SLOT
         IN IF slot # NULL_SLOT
            THEN LET r0 == Log(LookupTouch(r, r.current_dict, name),
                               Ev(r, "slot", 0, name, slot.dict, slot.idx,
                                  PITH_NIL, TRUE))
                 IN Returned(IF IsDictSlot(SlotAt(r, slot))
                             THEN ExecuteDictWord(r0, SlotAt(r, slot).cached.dict)
                             ELSE pith_execute_slot(r0, SlotAt(r, slot)))
            ELSE LET dict == pith_find_dict(r, name)
                 IN IF dict # NULL
                    THEN Returned(ExecuteDictWord(
                             Log(r, Ev(r, "dict", 0, name, dict, 0, PITH_NIL, TRUE)),
                             dict))
                    ELSE LET r1 == pith_error(r, "Unknown word: " \o name)
                         IN Failed(Log(r1, Ev(r1, "unknown", 0, name, NULL, 0,
                                              PITH_NIL, FALSE)))

\* What one turn of the loop of pith_execute_slot yields: the runtime, whether
\* the loop goes on (FALSE: "return false"), and the value of i at "break".
Step(r, ok, next) == [rt |-> r, ok |-> ok, next |-> next]

\* A selection that also takes the empty string and the empty array for false.
take_branch_nonempty(cond) ==
    IF cond.type = "bool" THEN cond.boolean
    ELSE IF cond.type = "number" THEN cond.number # 0
    ELSE IF cond.type = "nil" THEN FALSE
    ELSE IF cond.type = "string" THEN cond.string # ""
    ELSE IF cond.type = "array" THEN cond.items # << >>
    ELSE TRUE

take_branch(cond) ==
    IF cond.type = "bool" THEN cond.boolean
    ELSE IF cond.type = "number" THEN cond.number # 0
    ELSE IF cond.type = "nil" THEN FALSE
    ELSE TRUE

RECURSIVE ScanIf(_, _, _, _, _)
\* The scan for the else and the end of an if, from token j at nesting depth:
\* else_pos 0 means no else; end_pos stays at if_body_start when no end closes
\* the if before body_end.
ScanIf(j, body_end, depth, else_pos, if_body_start) ==
    IF j >= body_end THEN [else_pos |-> else_pos, end_pos |-> if_body_start]
    ELSE LET t == Tok(j).type IN
         IF t \in {"IF", "DO"}
         THEN ScanIf(j + 1, body_end, depth + 1, else_pos, if_body_start)
         ELSE IF t = "ELSE" /\ depth = 1
         THEN ScanIf(j + 1, body_end, depth, j, if_body_start)
         ELSE IF t = "END"
         THEN IF depth - 1 = 0 THEN [else_pos |-> else_pos, end_pos |-> j]
              ELSE ScanIf(j + 1, body_end, depth - 1, else_pos, if_body_start)
         ELSE ScanIf(j + 1, body_end, depth, else_pos, if_body_start)

RECURSIVE ScanDo(_, _, _)
\* The while loop of the do case: the value of j when it stops.
ScanDo(j, body_end, depth) ==
    IF j < body_end /\ depth > 0
    THEN ScanDo(j + 1, body_end,
                IF Tok(j).type = "DO" THEN depth + 1
                ELSE IF Tok(j).type = "END" THEN depth - 1
                ELSE depth)
    ELSE j

RECURSIVE ScanBracket(_, _, _, _)
\* The scan for the matching ]: arr_end stays at arr_start when there is none.
ScanBracket(j, body_end, bracket_depth, arr_start) ==
    IF j >= body_end THEN arr_start
    ELSE IF Tok(j).type = "LBRACKET"
    THEN ScanBracket(j + 1, body_end, bracket_depth + 1, arr_start)
    ELSE IF Tok(j).type = "RBRACKET"
    THEN IF bracket_depth - 1 = 0 THEN j
         ELSE ScanBracket(j + 1, body_end, bracket_depth - 1, arr_start)
    ELSE ScanBracket(j + 1, body_end, bracket_depth, arr_start)

RECURSIVE ChainEnd(_, _)
\* The last word of the dot chain that starts at chain_end.
ChainEnd(chain_end, body_end) ==
    IF chain_end + 2 < body_end /\ Tok(chain_end + 1).type = "DOT"
       /\ Tok(chain_end + 2).type = "WORD"
    THEN ChainEnd(chain_end + 2, body_end)
    ELSE chain_end

\* A temporary slot for the token range [body_start, body_end).
TempSlot(body_start, body_end) == Slot("", body_start, body_end, FALSE, PITH_NIL)

\* The result of a nested call as a step of the token loop of
\* pith_execute_slot: on success the loop goes on after token next.
StepOf(res, i, next) == Step(res.rt, res.ok, IF res.ok THEN next ELSE i)

RECURSIVE Traverse(_, _, _, _)
\* An intermediate part whose slot was executed: the value it left must be a
\* dictionary, which the next part is looked up in.
TraverseValue(res, j, chain_end, current) ==
    IF ~res.ok THEN [rt |-> res.rt, ok |-> FALSE, current |-> current]
    ELSE IF pith_pop(res.rt).type # "dict"
    THEN [rt |-> pith_value_free(
                     pith_error(pith_pop_rt(res.rt),
                                "'" \o Tok(j).text \o "' is not a dictionary/map"),
                     pith_pop(res.rt)),
          ok |-> FALSE, current |-> current]
    ELSE Traverse(pith_pop_rt(res.rt), j + 2, chain_end, pith_pop(res.rt).dict)

\* The intermediate part j, looked up in current as part_slot.
TraversePart(r0, part_slot, j, chain_end, current) ==
    IF part_slot = NULL_SLOT
    THEN [rt |-> pith_error(r0, "Unknown slot '" \o Tok(j).text \o "' in path"),
          ok |-> FALSE, current |-> current]
    ELSE IF IsDictSlot(SlotAt(r0, part_slot))
    THEN Traverse(r0, j + 2, chain_end, SlotAt(r0, part_slot).cached.dict)
    ELSE TraverseValue(ExecuteIn(r0, current, SlotAt(r0, part_slot)),
                       j, chain_end, current)

\* The loop over the intermediate parts of a dot chain, from part j with
\* dictionary current: yields the dictionary the last part is looked up in.
Traverse(r, j, chain_end, current) ==
    IF j >= chain_end THEN [rt |-> r, ok |-> TRUE, current |-> current]
    ELSE TraversePart(LookupTouch(r, current, Tok(j).text),
                      pith_dict_lookup(r, current, Tok(j).text),
                      j, chain_end, current)

\* The last part of a dot chain, tr being what the traversal of the parts
\* before it yielded: a signal write, or the execution of a slot.
PathFinal(tr, i, chain_end) ==
    LET current    == tr.current
        final_name == Tok(chain_end).text
    IN IF ~tr.ok THEN Step(tr.rt, FALSE, i)
       ELSE IF IsSignalWrite(final_name)
       THEN LET final_slot == pith_dict_lookup(tr.rt, current, StripBang(final_name))
                r0 == LookupTouch(tr.rt, current, StripBang(final_name))
            IN IF final_slot = NULL_SLOT \/ ~SlotAt(r0, final_slot).is_cached
                  \/ SlotAt(r0, final_slot).cached.type # "signal"
               THEN Step(pith_error(r0, "Unknown signal '" \o final_name \o "'"),
                         FALSE, i)
               ELSE IF ~pith_stack_has(r0, 1)
               THEN Step(pith_error(r0, "Signal write requires value on stack"),
                         FALSE, i)
               ELSE Step(SignalWrite(r0, SlotAt(r0, final_slot).cached.signal,
                                     final_name),
                         TRUE, chain_end)
       ELSE LET final_slot == pith_dict_lookup(tr.rt, current, final_name)
                r0 == LookupTouch(tr.rt, current, final_name)
            IN IF final_slot = NULL_SLOT
               THEN Step(pith_error(r0, "Unknown slot '" \o final_name \o "' in path"),
                         FALSE, i)
               ELSE StepOf(ExecuteIn(r0, current, SlotAt(r0, final_slot)),
                           i, chain_end)

\* The dot-access case of a word token: word.slot, word.slot.nested, ...
ExecutePath(r, i, body_end) ==
    LET dict_name == Tok(i).text
        first     == pith_find_dict(r, dict_name)
    IN IF first = NULL
       THEN Step(pith_error(r, "Unknown dictionary: " \o dict_name), FALSE, i)
       ELSE PathFinal(Traverse(r, i + 2, ChainEnd(i, body_end), first),
                      i, ChainEnd(i, body_end))

\* case TOK_IF
ExecuteIf(r, i, body_end) ==
    IF ~pith_stack_has(r, 1)
    THEN Step(pith_error(r, "if requires condition on stack"), FALSE, i)
    ELSE LET cond == pith_pop(r)
             r1   == pith_pop_rt(r)
             if_body_start == i + 1
             scan == ScanIf(if_body_start, body_end, 1, 0, if_body_start)
             else_pos == scan.else_pos
             end_pos  == scan.end_pos
             branch == IF take_branch(cond) THEN "then"
                       ELSE IF else_pos > 0 THEN "else" ELSE "none"
             r2  == Log(r1, Ev(r1, "if", i, branch, NULL, end_pos, cond, TRUE))
         IN StepOf(IF branch = "then"
                   THEN pith_execute_slot(r2,
                            TempSlot(if_body_start,
                                     IF else_pos > 0 THEN else_pos ELSE end_pos))
                   ELSE IF branch = "else"
                   THEN pith_execute_slot(r2, TempSlot(else_pos + 1, end_pos))
                   ELSE R(r2, TRUE),
                   i, end_pos)

\* case TOK_DO
ExecuteDo(r, i, body_end) ==
    LET j     == ScanDo(i + 1, body_end, 1)
        block == PITH_BLOCK(i + 1, j - 1)
        res   == pith_push(r, block)
    IN Step(Log(res.rt, Ev(res.rt, "do", i, "", NULL, j - 1, block, res.ok)),
            TRUE, j - 1)

\* A constructor that pushes the popped values back last first.
CollectItemsReversed(stack, stack_before) ==
    [k \in 1..(Len(stack) - stack_before) |-> stack[Len(stack) + 1 - k]]

\* The two loops that move what was pushed above stack_before into the new
\* array: popped into temp from its last place down, then pushed in order.
CollectItems(stack, stack_before) == SubSeq(stack, stack_before + 1, Len(stack))

\* case TOK_LBRACKET.  When the interior has left the stack lower than it was
\* at the bracket, num_items (a size_t) wraps around and the constructor
\* runs far outside the stack: the process dies.
\* The constructor once the interior has run and left r1: everything above
\* stack_before goes into a new array, which is pushed.  When the interior has
\* left the stack lower than it was at the bracket, num_items (a size_t)
\* wraps around and the constructor runs far outside the stack: the process
\* dies.
ArrayOf(r1, i, stack_before, arr_end) ==
    IF r1.crashed THEN Step(r1, FALSE, i)
    ELSE IF stack_top(r1) < stack_before
    THEN Step(Crash([r1 EXCEPT !.ub = TRUE]), FALSE, i)
    ELSE LET r2  == Log(r1, Ev(r1, "collect", i, "", NULL, stack_before,
                               PITH_NIL, TRUE))
             arr == PITH_ARRAY(CollectItems(r2.stack, stack_before))
             r3  == [r2 EXCEPT !.stack = SubSeq(@, 1, stack_before)]
             res == pith_push(r3, arr)
         IN Step(Log(res.rt, Ev(res.rt, "array", i, "", NULL, stack_before,
                                arr, res.ok)),
                 TRUE, arr_end)

\* case TOK_LBRACKET: the result of executing the interior is not looked at.
ExecuteArray(r, i, body_end) ==
    ArrayOf(pith_execute_slot(r, TempSlot(i + 1,
                                          ScanBracket(i + 1, body_end, 1, i + 1))).rt,
            i, stack_top(r), ScanBracket(i + 1, body_end, 1, i + 1))

\* The switch on the type of token i.
ExecuteToken(r, i, body_end) ==
    LET tok == Tok(i) IN
    CASE IsLiteral(tok)        -> Step(pith_push(r, LiteralValue(tok)).rt, TRUE, i)
      [] tok.type = "WORD"     ->
            IF i + 2 < body_end /\ Tok(i + 1).type = "DOT" /\ Tok(i + 2).type = "WORD"
            THEN ExecutePath(r, i, body_end)
            ELSE StepOf(pith_execute_word(r, tok.text), i, i)
      [] tok.type = "IF"       -> ExecuteIf(r, i, body_end)
      [] tok.type = "DO"       -> ExecuteDo(r, i, body_end)
      [] tok.type = "LBRACKET" -> ExecuteArray(r, i, body_end)
      [] OTHER                 -> Step(r, TRUE, i)

RECURSIVE ExecuteBody(_, _, _)
\* What follows a token of the loop: "return false" when it failed, the test
\* of the error flag, and the next token.
AfterToken(step, body_end) ==
    IF step.rt.crashed THEN R(step.rt, FALSE)
    ELSE IF ~step.ok \/ step.rt.has_error THEN Failed(step.rt)
    ELSE ExecuteBody(step.rt, step.next + 1, body_end)

\* The for loop of pith_execute_slot from token i: after every token the
\* error flag is tested.
ExecuteBody(r, i, body_end) ==
    IF i >= body_end THEN R(r, TRUE)
    ELSE AfterToken(ExecuteToken(Log(r, Ev(r, "tok", i, Tok(i).text, NULL, 0,
                                           PITH_NIL, TRUE)),
                                 i, body_end),
                    body_end)

\* The return of pith_execute_slot to its caller, depth calls deep.
LeaveSlot(res, depth) == R([res.rt EXCEPT !.depth = depth], res.ok)

\* Every nested call of the engine takes C stack; beyond MaxDepth nested calls
\* the C stack is exhausted and the process dies.
pith_execute_slot(r, slot) ==
    IF r.crashed THEN R(r, FALSE)
    ELSE IF slot.is_cached
    THEN IF slot.cached.type = "signal"
         THEN LET sig == slot.cached.signal
                  val == pith_value_copy(r.signals[sig].value)
                  res == pith_push(r, val)
              IN IF res.ok
                 THEN R(Log(res.rt, Ev(res.rt, "sigread", 0, slot.name, NULL, sig,
                                       val, TRUE)), TRUE)
                 ELSE Failed(res.rt)
         ELSE Returned(pith_push(r, pith_value_copy(slot.cached)))
    ELSE IF r.depth >= MaxDepth THEN R(Crash(r), FALSE)
    ELSE LeaveSlot(ExecuteBody([r EXCEPT !.depth = @ + 1],
                               slot.body_start, slot.body_end),
                   r.depth)

\* The return of pith_execute_block.
BlockDone(res, block) ==
    R(Log(res.rt, Ev(res.rt, "blockend", block.start, "", NULL, block.end,
                     block, res.ok)),
      res.ok)

\* A block that runs against the dictionary that was current when its do was
\* evaluated (in this call), and restores the current dictionary afterwards.
pith_execute_block_in_creator(r, block) ==
    LET made == {k \in 1..Len(r.log) : r.log[k].ev = "do" /\ r.log[k].val = block}
        home == IF made = {} THEN r.current_dict
                ELSE r.log[CHOOSE k \in made : \A j \in made : j <= k].cur
        r0   == [r EXCEPT !.current_dict = home]
    IN BlockDone(RestoreDict(
                     pith_execute_slot(
                         Log(r0, Ev(r0, "block", block.start, "", r.current_dict,
                                    block.end, block, TRUE)),
                         TempSlot(block.start, block.end)),
                     r.current_dict),
                 block)

pith_execute_block(r, block) ==
    BlockDone(pith_execute_slot(
                  Log(r, Ev(r, "block", block.start, "", r.current_dict, block.end,
                            block, TRUE)),
                  TempSlot(block.start, block.end)),
              block)

(***************************************************************************)
(* The entry points the host calls                                         *)
(***************************************************************************)
pith_runtime_run_slot(r, name) ==
    LET slot == pith_dict_lookup(r, ROOT, name) IN
    IF slot = NULL_SLOT THEN R(r, FALSE)
    ELSE pith_execute_slot(r, SlotAt(r, slot))

\* The ui slot has run: the view it left on top of the stack becomes the
\* current view.
MountView(res) ==
    IF ~res.ok THEN R(res.rt, FALSE)
    ELSE IF pith_stack_has(res.rt, 1) /\ pith_peek(res.rt).type = "view"
    THEN R([pith_pop_rt(res.rt) EXCEPT !.current_view = pith_pop(res.rt)], TRUE)
    ELSE R(res.rt, FALSE)

pith_runtime_mount_ui(r) ==
    LET ui_slot == pith_dict_lookup(r, ROOT, "ui") IN
    IF ui_slot = NULL_SLOT THEN R(r, FALSE)
    ELSE MountView(pith_execute_slot(r, SlotAt(r, ui_slot)))

\* The handler slot of an event, and what is pushed for it before the
\* handler is looked up (a key code, the path of the changed file).
HandlerName(type) ==
    CASE type = "key"         -> "on-key"
      [] type = "click"       -> "on-click"
      [] type = "file-change" -> "on-file-change"

EventPushed(r, type) ==
    CASE type = "key"         -> pith_push(r, PITH_NUMBER(65)).rt
      [] type = "click"       -> r
      [] type = "file-change" -> pith_push(r, PITH_STRING("f")).rt

\* The handler of the event is run in the current dictionary, if there is one.
HandleWith(r, handler_name) ==
    IF r.current_dict = NULL
       \/ pith_dict_lookup(r, r.current_dict, handler_name) = NULL_SLOT
    THEN R(Log(r, Ev(r, "eventend", 0, handler_name, r.current_dict, 0,
                     PITH_NIL, FALSE)), FALSE)
    ELSE pith_execute_slot(r, SlotAt(r, pith_dict_lookup(r, r.current_dict,
                                                         handler_name)))

\* An event of the window: its payload is pushed, then its handler is run.
\* The record of the call holds the stack at the start (event) and, when no
\* handler was found, at the return (eventend).
pith_runtime_handle_event(r, type) ==
    HandleWith(EventPushed(Log(r, Ev(r, "event", 0, type, r.current_dict, 0,
                                     PITH_NIL, TRUE)),
                           type),
               HandlerName(type))

(***************************************************************************)
(* The projects of the model: the token streams pith_parse produces for    *)
(* the source texts below, and for each project the words its host         *)
(* executes.                                                               *)
(*                                                                         *)
(*  errors   one: 1 end                                                    *)
(*           fill: 1 2 3 4 5 end                                           *)
(*           arr: [ 1 2 add ] end                                          *)
(*           bad: [ 1 "a" add 2 ] end                                      *)
(*           loop: [ 1 2 ] do "a" add end each end                         *)
(*                                                                         *)
(*  truth    zero: 0 end      estr: "" end     earr: [ ] end               *)
(*           no: false end    none: nil end    yes: true end               *)
(*           test: if "T" else "E" end end                                 *)
(*                                                                         *)
(*  blocks   blk: do 1 2 add end end                                       *)
(*           nest: do do 1 end 2 end end                                   *)
(*           cond: do 1 if 2 end 3 end end                                 *)
(*           run: [ 0 ] do drop 7 end each end                             *)
(*           main: run end                                                 *)
(***************************************************************************)
SourceErrors ==
    << <<W("one"), T_COLON, N(1), T_END>>,
       <<W("fill"), T_COLON, N(1), N(2), N(3), N(4), N(5), T_END>>,
       <<W("arr"), T_COLON, T_LB, N(1), N(2), W("add"), T_RB, T_END>>,
       <<W("bad"), T_COLON, T_LB, N(1), S("a"), W("add"), N(2), T_RB, T_END>>,
       <<W("loop"), T_COLON, T_LB, N(1), N(2), T_RB,
         T_DO, S("a"), W("add"), T_END, W("each"), T_END>> >>

SourceTruth ==
    << <<W("zero"), T_COLON, N(0), T_END>>,
       <<W("estr"), T_COLON, S(""), T_END>>,
       <<W("earr"), T_COLON, T_LB, T_RB, T_END>>,
       <<W("no"), T_COLON, T_FALSE, T_END>>,
       <<W("none"), T_COLON, T_NIL, T_END>>,
       <<W("yes"), T_COLON, T_TRUE, T_END>>,
       <<W("test"), T_COLON, T_IF, S("T"), T_ELSE, S("E"), T_END, T_END>> >>

SourceBlocks ==
    << <<W("blk"), T_COLON, T_DO, N(1), N(2), W("add"), T_END, T_END>>,
       <<W("nest"), T_COLON, T_DO, T_DO, N(1), T_END, N(2), T_END, T_END>>,
       <<W("cond"), T_COLON, T_DO, N(1), T_IF, N(2), T_END, N(3), T_END, T_END>>,
       <<W("run"), T_COLON, T_LB, N(0), T_RB,
         T_DO, W("drop"), N(7), T_END, W("each"), T_END>>,
       <<W("main"), T_COLON, W("run"), T_END>> >>

(***************************************************************************)
(*  comp     a:                          app:                              *)
(*             greet: "hi"                 count: 0 signal                 *)
(*             name: "A"                   bold: true                      *)
(*             mk: do name end             ui: "inc" do count end button   *)
(*           end                         end                               *)
(*           b:                          name: "R" end                     *)
(*             parent: a                 count: 7 end                      *)
(*             name: "B"                 go: b.run end                     *)
(*             dup: "user"               hi: b.hello end                   *)
(*             run: [ 1 ] a.mk each      tw: 1 b.twice end                 *)
(*             hello: greet              rd: app.count end                 *)
(*             twice: dup                wr: 5 app.count! end              *)
(*             me: a nope                wr2: 9 app.count! app.count end   *)
(*           end                         me: b.me end                      *)
(*                                       ui: app end                       *)
(***************************************************************************)
SourceComp ==
    << <<W("a"), T_COLON>>,
       <<W("greet"), T_COLON, S("hi")>>,
       <<W("name"), T_COLON, S("A")>>,
       <<W("mk"), T_COLON, T_DO, W("name"), T_END>>,
       <<T_END>>,
       <<W("b"), T_COLON>>,
       <<W("parent"), T_COLON, W("a")>>,
       <<W("name"), T_COLON, S("B")>>,
       <<W("dup"), T_COLON, S("user")>>,
       <<W("run"), T_COLON, T_LB, N(1), T_RB, W("a"), T_DOT, W("mk"), W("each")>>,
       <<W("hello"), T_COLON, W("greet")>>,
       <<W("twice"), T_COLON, W("dup")>>,
       <<W("me"), T_COLON, W("a"), W("nope")>>,
       <<T_END>>,
       <<W("app"), T_COLON>>,
       <<W("count"), T_COLON, N(0), W("signal")>>,
       <<W("bold"), T_COLON, T_TRUE>>,
       <<W("ui"), T_COLON, S("inc"), T_DO, W("count"), T_END, W("button")>>,
       <<T_END>>,
       <<W("name"), T_COLON, S("R"), T_END>>,
       <<W("count"), T_COLON, N(7), T_END>>,
       <<W("go"), T_COLON, W("b"), T_DOT, W("run"), T_END>>,
       <<W("hi"), T_COLON, W("b"), T_DOT, W("hello"), T_END>>,
       <<W("tw"), T_COLON, N(1), W("b"), T_DOT, W("twice"), T_END>>,
       <<W("rd"), T_COLON, W("app"), T_DOT, W("count"), T_END>>,
       <<W("wr"), T_COLON, N(5), W("app"), T_DOT, W("count!"), T_END>>,
       <<W("wr2"), T_COLON, N(9), W("app"), T_DOT, W("count!"),
         W("app"), T_DOT, W("count"), T_END>>,
       <<W("me"), T_COLON, W("b"), T_DOT, W("me"), T_END>>,
       <<W("ui"), T_COLON, W("app"), T_END>> >>

(***************************************************************************)
(*  maps     a:                                                            *)
(*             greet: "hi"                                                 *)
(*           end                                                           *)
(*           five: 5 end                                                   *)
(*           pa: 1 a "k" end                                               *)
(*           prep: 1 new-map new-map "k" set "k" end                       *)
(*           prepm: new-map new-map "k" set dup end                        *)
(***************************************************************************)
SourceMaps ==
    << <<W("a"), T_COLON>>,
       <<W("greet"), T_COLON, S("hi")>>,
       <<T_END>>,
       <<W("five"), T_COLON, N(5), T_END>>,
       <<W("pa"), T_COLON, N(1), W("a"), S("k"), T_END>>,
       <<W("prep"), T_COLON, N(1), W("new-map"), W("new-map"), S("k"), W("set"),
         S("k"), T_END>>,
       <<W("prepm"), T_COLON, W("new-map"), W("new-map"), S("k"), W("set"),
         W("dup"), T_END>> >>

(***************************************************************************)
(*  hof      nums: [ 1 2 3 ] end                                           *)
(*           sel: do 2 = end end                                           *)
(*           inc: do 1 add end end                                         *)
(*           st: n: 0 signal end                                           *)
(*           peek: st "n" get end                                          *)
(*           rd: st.n end                                                  *)
(***************************************************************************)
SourceHof ==
    << <<W("nums"), T_COLON, T_LB, N(1), N(2), N(3), T_RB, T_END>>,
       <<W("sel"), T_COLON, T_DO, N(2), W("="), T_END, T_END>>,
       <<W("inc"), T_COLON, T_DO, N(1), W("add"), T_END, T_END>>,
       <<W("st"), T_COLON>>,
       <<W("n"), T_COLON, N(0), W("signal")>>,
       <<T_END>>,
       <<W("peek"), T_COLON, W("st"), S("n"), W("get"), T_END>>,
       <<W("rd"), T_COLON, W("st"), T_DOT, W("n"), T_END>> >>

(***************************************************************************)
(*  rec      rec: rec end                                                  *)
(*           cnt: 1 1 cnt end                                              *)
(*           ping: pong end                                                *)
(*           pong: ping end                                                *)
(*           base:                                                         *)
(*             k: "v"                                                      *)
(*           end                                                           *)
(*           kid:                                                          *)
(*             parent: base                                                *)
(*             own: 1                                                      *)
(*           end                                                           *)
(*           rk: kid "k" remove "k" has end                                *)
(*           gk: kid "k" remove "k" get end                                *)
(*           ro: kid "own" remove "own" has end                            *)
(***************************************************************************)
SourceRec ==
    << <<W("rec"), T_COLON, W("rec"), T_END>>,
       <<W("cnt"), T_COLON, N(1), N(1), W("cnt"), T_END>>,
       <<W("ping"), T_COLON, W("pong"), T_END>>,
       <<W("pong"), T_COLON, W("ping"), T_END>>,
       <<W("base"), T_COLON>>,
       <<W("k"), T_COLON, S("v")>>,
       <<T_END>>,
       <<W("kid"), T_COLON>>,
       <<W("parent"), T_COLON, W("base")>>,
       <<W("own"), T_COLON, N(1)>>,
       <<T_END>>,
       <<W("rk"), T_COLON, W("kid"), S("k"), W("remove"), S("k"), W("has"), T_END>>,
       <<W("gk"), T_COLON, W("kid"), S("k"), W("remove"), S("k"), W("get"), T_END>>,
       <<W("ro"), T_COLON, W("kid"), S("own"), W("remove"), S("own"), W("has"),
         T_END>> >>

(***************************************************************************)
(*  sig      box:                                                          *)
(*             n: 0 signal                                                 *)
(*           end                                                           *)
(*           tot: 0 signal end                                             *)
(*           one: 1 end                                                    *)
(*           wn: 1 box.n! end                                              *)
(*           under: 1 2 [ add ] end                                        *)
(***************************************************************************)
SourceSig ==
    << <<W("box"), T_COLON>>,
       <<W("n"), T_COLON, N(0), W("signal")>>,
       <<T_END>>,
       <<W("tot"), T_COLON, N(0), W("signal"), T_END>>,
       <<W("one"), T_COLON, N(1), T_END>>,
       <<W("wn"), T_COLON, N(1), W("box"), T_DOT, W("n!"), T_END>>,
       <<W("under"), T_COLON, N(1), N(2), T_LB, W("add"), T_RB, T_END>> >>

(***************************************************************************)
(*  ifs      yes: 1 end                                                    *)
(*           no: 0 end                                                     *)
(*           ie: if 10 else 20 end 30 end                                  *)
(*           n1: if 0 if 11 else 12 end else 20 end 30 end                 *)
(*           n2: if 1 if 11 else 12 end end 30 end                         *)
(*           nd: if [ 0 ] do 1 if 2 end end each else 20 end 30 end        *)
(***************************************************************************)
SourceIfs ==
    << <<W("yes"), T_COLON, N(1), T_END>>,
       <<W("no"), T_COLON, N(0), T_END>>,
       <<W("ie"), T_COLON, T_IF, N(10), T_ELSE, N(20), T_END, N(30), T_END>>,
       <<W("n1"), T_COLON, T_IF, N(0), T_IF, N(11), T_ELSE, N(12), T_END,
         T_ELSE, N(20), T_END, N(30), T_END>>,
       <<W("n2"), T_COLON, T_IF, N(1), T_IF, N(11), T_ELSE, N(12), T_END,
         T_END, N(30), T_END>>,
       <<W("nd"), T_COLON, T_IF, T_LB, N(0), T_RB, T_DO, N(1), T_IF, N(2), T_END,
         T_END, W("each"), T_ELSE, N(20), T_END, N(30), T_END>> >>

Projects == {"errors", "truth", "blocks", "comp", "maps", "hof", "rec", "sig", "ifs"}

Source(p) ==
    CASE p = "errors" -> SourceErrors
      [] p = "truth"  -> SourceTruth
      [] p = "blocks" -> SourceBlocks
      [] p = "comp"   -> SourceComp
      [] p = "maps"   -> SourceMaps
      [] p = "hof"    -> SourceHof
      [] p = "rec"    -> SourceRec
      [] p = "sig"    -> SourceSig
      [] p = "ifs"    -> SourceIfs

\* The words the host of project p passes to pith_execute_word.
HostWords(p) ==
    CASE p = "errors" -> {"dup", "add", "one", "fill", "arr", "bad", "loop", "nope"}
      [] p = "truth"  -> {"zero", "estr", "earr", "no", "none", "yes", "test"}
      [] p = "blocks" -> {"blk", "nest", "cond", "run", "each"}
      [] p = "comp"   -> {"go", "hi", "tw", "rd", "wr", "wr2", "me", "count!"}
      [] p = "maps"   -> {"a", "five", "pa", "prep", "prepm", "set", "remove", "merge"}
      [] p = "hof"    -> {"nums", "sel", "inc", "filter", "map", "peek", "rd", "st", "get", "=",
                          "drop"}
      [] p = "rec"    -> {"rec", "cnt", "ping", "rk", "gk", "ro"}
      [] p = "sig"    -> {"one", "tot!", "wn", "under"}
      [] p = "ifs"    -> {"yes", "no", "ie", "n1", "n2", "nd"}

\* The lifecycle slots the host runs with pith_runtime_run_slot.
LifecycleSlots == {"init", "main"}

(***************************************************************************)
(* The host.  Each action is one call of an entry point of the runtime,    *)
(* from the call to its return.  A call that has executed undefined        *)
(* behaviour either went on with what the freed memory still held or       *)
(* killed the process.                                                     *)
(***************************************************************************)
Init ==
    /\ proj \in Projects
    /\ tokens = Lines(Source(proj), 1)
    /\ rt = pith_runtime_new
    /\ calls = 0
    /\ last = [op |-> "new", name |-> proj, ok |-> TRUE]

\* What main.c does with the result of a call.
Loading(res) ==
    /\ rt' = res.rt
    /\ last' = [op |-> "load", name |-> proj, ok |-> res.ok]

\* main.c loads the project first, and goes on only when that succeeded.
Load ==
    /\ last.op = "new"
    /\ Loading(pith_runtime_load_string(rt))
    /\ UNCHANGED <<proj, tokens, calls>>

Loaded == last.op # "new" /\ (last.op = "load" => last.ok)

\* The runtime at the start of a call: the record of the last call is dropped.
Begin(r) == [r EXCEPT !.log = << >>]

Outcomes(r) == IF r.ub /\ ~r.crashed THEN {r, Crash(r)} ELSE {r}

Return(op, name, res) ==
    /\ rt' \in Outcomes(res.rt)
    /\ last' = [op |-> op, name |-> name, ok |-> res.ok /\ ~rt'.crashed]
    /\ calls' = calls + 1
    /\ UNCHANGED <<proj, tokens>>

ExecuteWord(name) ==
    /\ Loaded
    /\ calls < MaxCalls
    /\ ~rt.crashed
    /\ Return("word", name, pith_execute_word(Begin(rt), name))

RunSlot(name) ==
    /\ Loaded
    /\ calls < MaxCalls
    /\ ~rt.crashed
    /\ Return("slot", name, pith_runtime_run_slot(Begin(rt), name))

MountUi ==
    /\ Loaded
    /\ calls < MaxCalls
    /\ ~rt.crashed
    /\ Return("mount", "ui", pith_runtime_mount_ui(Begin(rt)))

\* A click that hits the button of the current view (main.c).
Click ==
    /\ Loaded
    /\ calls < MaxCalls
    /\ ~rt.crashed
    /\ rt.current_view.type = "view"
    /\ rt.current_view.view.kind = "button"
    /\ rt.current_view.view.on_click.type = "block"
    /\ Return("click", "", pith_execute_block(Begin(rt),
                                              rt.current_view.view.on_click))

ClearError ==
    /\ Loaded
    /\ ~rt.crashed
    /\ rt.has_error
    /\ rt' = pith_clear_error(rt)
    /\ last' = [op |-> "clear_error", name |-> "", ok |-> TRUE]
    /\ UNCHANGED <<proj, tokens, calls>>

ClearDirty ==
    /\ Loaded
    /\ ~rt.crashed
    /\ pith_runtime_has_dirty_signals(rt)
    /\ rt' = pith_runtime_clear_dirty(rt)
    /\ last' = [op |-> "clear_dirty", name |-> "", ok |-> TRUE]
    /\ UNCHANGED <<proj, tokens, calls>>

Next ==
    \/ Load
    \/ \E name \in HostWords(proj) : ExecuteWord(name)
    \/ \E name \in LifecycleSlots : RunSlot(name)
    \/ MountUi
    \/ Click
    \/ ClearError
    \/ ClearDirty

Spec == Init /\ [][Next]_vars

(***************************************************************************)
(* The run of main.c: load, init, mount ui, the event loop while the       *)
(* window is open, main, exit.  A project of this run is a choice of the   *)
(* bodies of its lifecycle slots:                                          *)
(*                                                                         *)
(*    app:                                                                 *)
(*      count: 0 signal                                                    *)
(*      ui: "inc" do 1 app.count! end button    (click "bad": do nope end) *)
(*    end                                                                  *)
(*    init: 1 drop end                          ("bad": nope)              *)
(*    ui: app end                               ("bad": nope)              *)
(*    main: 2 drop end                          ("bad": nope)              *)
(*    exit: 3 drop end                                                     *)
(***************************************************************************)
HostProjects ==
    [init : {"none", "ok", "bad"}, ui : {"none", "ok", "click", "write", "bad"},
     main : {"none", "ok", "bad"}, exit : {"none", "ok"}]

SlotLines(name, kind, n) ==
    CASE kind = "none" -> << >>
      [] kind = "bad"  -> << <<W(name), T_COLON, W("nope"), T_END>> >>
      [] OTHER         -> << <<W(name), T_COLON, N(n), W("drop"), T_END>> >>

HostSource(p) ==
    << <<W("app"), T_COLON>>,
       <<W("count"), T_COLON, N(0), W("signal")>>,
       IF p.ui = "click"
       THEN <<W("ui"), T_COLON, S("inc"), T_DO, W("nope"), T_END, W("button")>>
       ELSE IF p.ui = "write"
       THEN <<W("ui"), T_COLON, N(2), W("app"), T_DOT, W("count!"),
              S("inc"), T_DO, N(1), W("app"), T_DOT, W("count!"), T_END, W("button")>>
       ELSE <<W("ui"), T_COLON, S("inc"), T_DO, N(1), W("app"), T_DOT,
              W("count!"), T_END, W("button")>>,
       <<T_END>> >>
    \o SlotLines("init", p.init, 1)
    \o (CASE p.ui = "none" -> << >>
          [] p.ui = "bad"  -> << <<W("ui"), T_COLON, W("nope"), T_END>> >>
          [] OTHER         -> << <<W("ui"), T_COLON, W("app"), T_END>> >>)
    \o SlotLines("main", p.main, 2)
    \o SlotLines("exit", p.exit, 3)

HostInit ==
    /\ proj \in HostProjects
    /\ tokens = Lines(HostSource(proj), 1)
    /\ rt = pith_runtime_new
    /\ calls = 0
    /\ last = [op |-> "new", name |-> proj, ok |-> TRUE]

\* What the process does after a call that ran a lifecycle slot: it goes on
\* when the error flag is clear, and returns 1 when it is set.
Phase(op, res) ==
    /\ rt' \in Outcomes(res.rt)
    /\ last' = [op |-> op, name |-> proj, ok |-> ~rt'.has_error /\ ~rt'.crashed]
    /\ UNCHANGED <<proj, tokens, calls>>

HostRunInit ==
    /\ last.op = "load" /\ last.ok
    /\ Phase("init", pith_runtime_run_slot(Begin(rt), "init"))

\* has_ui and view: the window is opened when ui was mounted.
HostMountUi ==
    /\ last.op = "init" /\ last.ok
    /\ LET res == pith_runtime_mount_ui(Begin(rt))
       IN /\ rt' \in Outcomes(res.rt)
          /\ last' = [op |-> "mount", name |-> proj,
                      ok |-> res.ok /\ ~rt'.crashed /\ rt'.current_view.type = "view"]
    /\ UNCHANGED <<proj, tokens, calls>>

\* The click of a frame: a hit on a button runs its on_click block.
FrameClick(r, hit) ==
    IF /\ hit
       /\ r.current_view.type = "view"
       /\ r.current_view.view.kind = "button"
       /\ r.current_view.view.on_click.type = "block"
    THEN pith_execute_block(r, r.current_view.view.on_click).rt
    ELSE r

\* The end of a frame: dirty signals make the host drop the view, mount ui
\* again and clear the dirty flags.
FrameRebuild(r) ==
    IF pith_runtime_has_dirty_signals(r)
    THEN pith_runtime_clear_dirty(
             pith_runtime_mount_ui([r EXCEPT !.current_view = PITH_NIL]).rt)
    ELSE r

\* The events a frame polls: a click beside the button, a click that hits
\* it, a key, a change of a watched file.
FrameEvents == {"click", "hit", "key", "file-change"}

\* One frame of the event loop with one event in it.
HostFrame ==
    /\ last.op \in {"mount", "frame"} /\ last.ok
    /\ calls < MaxCalls
    /\ \E event \in FrameEvents :
          rt' \in Outcomes(FrameRebuild(
                     pith_runtime_handle_event(
                         FrameClick(Begin(rt), event = "hit"),
                         IF event = "hit" THEN "click" ELSE event).rt))
    /\ last' = [op |-> "frame", name |-> proj, ok |-> ~rt'.crashed]
    /\ calls' = calls + 1
    /\ UNCHANGED <<proj, tokens>>

\* The window was never opened, or it has been closed: main is run.
HostRunMain ==
    /\ \/ last.op = "mount" /\ ~rt.crashed
       \/ last.op = "frame" /\ last.ok
    /\ Phase("main", pith_runtime_run_slot(Begin(rt), "main"))

HostRunExit ==
    /\ last.op = "main" /\ last.ok
    /\ Phase("exit", pith_runtime_run_slot(Begin(rt), "exit"))

HostNext ==
    \/ Load
    \/ HostRunInit
    \/ HostMountUi
    \/ HostFrame
    \/ HostRunMain
    \/ HostRunExit

\* The process has not returned from main(): one of the steps of HostNext is
\* the next thing it does.
Running ==
    \/ last.op = "new"
    \/ last.op \in {"load", "init", "frame", "main"} /\ last.ok
    \/ last.op = "mount" /\ ~rt.crashed

\* The steps of a running process, told by what they do to last and calls:
\* every step of HostNext starts from Running and changes one of the two.
HostStep ==
    /\ Running
    /\ last' \in [op : {"load", "init", "mount", "frame", "main", "exit"},
                  name : {proj}, ok : BOOLEAN]
    /\ calls' \in 0..MaxCalls

\* The process does not stall, and the window is closed in the end.
HostSpec == HostInit /\ [][HostNext]_vars /\ WF_<<last, calls>>(HostStep)

(***************************************************************************)
(* JSON.  A text is the sequence of the codes of its characters, read      *)
(* through At, which yields the terminating NUL (0) beyond its end.  A     *)
(* dictionary of pure data is held by content: the sequence of its slots.  *)
(* Numbers of the model are integers.                                      *)
(***************************************************************************)
At(src, pos) == IF pos >= 1 /\ pos <= Len(src) THEN src[pos] ELSE 0

\* A dictionary, with the name of its parent ("" for NULL).
PITH_DATA(name, parent, slots) ==
    [type |-> "dict", name |-> name, parent |-> parent, slots |-> slots]

RECURSIVE Pow10(_)
Pow10(k) == IF k = 0 THEN 1 ELSE 10 * Pow10(k - 1)

RECURSIVE Digits(_)
\* The decimal digits of n >= 0, as codes.
Digits(n) == IF n < 10 THEN <<48 + n>> ELSE Digits(n \div 10) \o <<48 + (n % 10)>>

RECURSIVE StripZeros(_)
\* %g removes the trailing zeros of the fraction.
StripZeros(ds) ==
    IF ds # << >> /\ ds[Len(ds)] = 48 THEN StripZeros(SubSeq(ds, 1, Len(ds) - 1))
    ELSE ds

\* The mantissa digit, fraction and exponent of the style e of %g.
Scientific(m, X) ==
    <<Head(Digits(m))>>
    \o (IF StripZeros(Tail(Digits(m))) = << >> THEN << >>
        ELSE <<46>> \o StripZeros(Tail(Digits(m))))
    \o <<101, 43>> \o (IF X < 10 THEN <<48>> ELSE << >>) \o Digits(X)

\* The magnitude a whose decimal exponent is X >= 6, rounded to six
\* significant digits (to nearest, ties to even).
Rounded(a, X) ==
    LET unit == Pow10(X - 5)
        q    == a \div unit
        rem  == a % unit
    IN IF 2 * rem > unit \/ (2 * rem = unit /\ q % 2 = 1) THEN q + 1 ELSE q

\* snprintf(numbuf, sizeof(numbuf), "%g", n) for an integer n: six
\* significant digits, style e when the decimal exponent is 6 or more.
FormatG(n) ==
    LET a == IF n < 0 THEN 0 - n ELSE n
        X == Len(Digits(a)) - 1
    IN (IF n < 0 THEN <<45>> ELSE << >>)
       \o (IF X < 6 THEN Digits(a)
           ELSE IF Rounded(a, X) = 1000000 THEN Scientific(100000, X + 1)
           ELSE Scientific(Rounded(a, X), X))

\* The two hexadecimal digits of "\u%04x" for a code below 32.
HexDigit(h) == IF h < 10 THEN 48 + h ELSE 97 + (h - 10)

\* What json_serialize_string appends for the character c.
JsonEscape(c) ==
    CASE c = 34 -> <<92, 34>>
      [] c = 92 -> <<92, 92>>
      [] c = 8  -> <<92, 98>>
      [] c = 12 -> <<92, 102>>
      [] c = 10 -> <<92, 110>>
      [] c = 13 -> <<92, 114>>
      [] c = 9  -> <<92, 116>>
      [] OTHER  -> IF c < 32
                   THEN <<92, 117, 48, 48, HexDigit(c \div 16), HexDigit(c % 16)>>
                   ELSE <<c>>

RECURSIVE EscapeAll(_)
EscapeAll(str) ==
    IF str = << >> THEN << >> ELSE JsonEscape(Head(str)) \o EscapeAll(Tail(str))

json_serialize_string(str) == <<34>> \o EscapeAll(str) \o <<34>>

RECURSIVE json_serialize_value(_), SerializeItems(_, _), SerializeSlots(_, _)

\* The items of an array from the i-th on, with the commas between them.
SerializeItems(items, i) ==
    IF i > Len(items) THEN << >>
    ELSE (IF i > 1 THEN <<44>> ELSE << >>)
         \o json_serialize_value(items[i]) \o SerializeItems(items, i + 1)

json_serialize_array(items) == <<91>> \o SerializeItems(items, 1) \o <<93>>

\* The cached slots of a dictionary, first telling whether none was written
\* yet.
SerializeSlots(slots, first) ==
    IF slots = << >> THEN << >>
    ELSE IF Head(slots).is_cached
    THEN (IF first THEN << >> ELSE <<44>>)
         \o json_serialize_string(Head(slots).name) \o <<58>>
         \o json_serialize_value(Head(slots).cached)
         \o SerializeSlots(Tail(slots), FALSE)
    ELSE SerializeSlots(Tail(slots), first)

json_serialize_dict(slots) == <<123>> \o SerializeSlots(slots, TRUE) \o <<125>>

json_serialize_value(value) ==
    CASE value.type = "nil"    -> <<110, 117, 108, 108>>
      [] value.type = "bool"   -> IF value.boolean THEN <<116, 114, 117, 101>>
                                  ELSE <<102, 97, 108, 115, 101>>
      [] value.type = "number" -> FormatG(value.number)
      [] value.type = "string" -> json_serialize_string(value.string)
      [] value.type = "array"  -> json_serialize_array(value.items)
      [] value.type = "dict"   -> json_serialize_dict(value.slots)
      [] OTHER                 -> <<110, 117, 108, 108>>

\* to-json: ( map -- str ).
builtin_to_json(r) ==
    IF ~pith_stack_has(r, 1) THEN R(r, FALSE)
    ELSE IF pith_pop(r).type # "dict"
    THEN R(pith_error(pith_pop_rt(r), "to-json requires a map"), FALSE)
    ELSE pith_push(pith_pop_rt(r),
                   PITH_STRING(json_serialize_dict(pith_pop(r).slots)))

\* The state of a JsonParser after a parsing function, with the value the
\* function returned.
Parsed(pos, error, value) == [pos |-> pos, error |-> error, value |-> value]

RECURSIVE json_skip_ws(_, _)
\* The position after the white space at pos.
json_skip_ws(src, pos) ==
    IF At(src, pos) \in {32, 9, 10, 11, 12, 13} THEN json_skip_ws(src, pos + 1)
    ELSE pos

RECURSIVE SkipHex(_, _, _)
\* A \u escape: up to k characters are skipped.
SkipHex(src, pos, k) ==
    IF k = 0 \/ At(src, pos) = 0 THEN pos ELSE SkipHex(src, pos + 1, k - 1)

\* The character an escape stands for.
Unescape(esc) ==
    CASE esc = 98  -> 8
      [] esc = 102 -> 12
      [] esc = 110 -> 10
      [] esc = 114 -> 13
      [] esc = 116 -> 9
      [] esc = 117 -> 63
      [] OTHER     -> esc

RECURSIVE StringChars(_, _, _)
\* The loop of json_parse_string: the characters up to the closing quote.
StringChars(src, pos, buf) ==
    IF At(src, pos) = 0 \/ At(src, pos) = 34 THEN [pos |-> pos, buf |-> buf]
    ELSE IF src[pos] = 92 /\ At(src, pos + 1) # 0
    THEN StringChars(src,
                     IF src[pos + 1] = 117 THEN SkipHex(src, pos + 2, 4) ELSE pos + 2,
                     Append(buf, Unescape(src[pos + 1])))
    ELSE StringChars(src, pos + 1, Append(buf, src[pos]))

\* The closing quote is skipped when there is one.
StringEnd(src, chars) ==
    Parsed(IF At(src, chars.pos) = 34 THEN chars.pos + 1 ELSE chars.pos, "",
           PITH_STRING(chars.buf))

json_parse_string(src, pos) ==
    IF At(src, pos) # 34 THEN Parsed(pos, "Expected '\"'", PITH_NIL)
    ELSE StringEnd(src, StringChars(src, pos + 1, << >>))

RECURSIVE ScanDigits(_, _, _, _)
\* The digits at pos, read on to the number val of which count digits were
\* read already.
ScanDigits(src, pos, val, count) ==
    IF At(src, pos) >= 48 /\ At(src, pos) <= 57
    THEN ScanDigits(src, pos + 1, 10 * val + (src[pos] - 48), count + 1)
    ELSE [val |-> val, pos |-> pos, count |-> count]

\* The exponent part of a number, at pos: e or E, a sign, digits.
ScanExponent(src, pos) ==
    LET signed == At(src, pos + 1) \in {43, 45}
        first  == IF signed THEN pos + 2 ELSE pos + 1
    IN IF At(src, pos) \in {101, 69} /\ At(src, first) >= 48 /\ At(src, first) <= 57
       THEN [val |-> (IF At(src, pos + 1) = 45 THEN 0 - 1 ELSE 1)
                      * ScanDigits(src, first, 0, 0).val,
             pos |-> ScanDigits(src, first, 0, 0).pos]
       ELSE [val |-> 0, pos |-> pos]

\* The number with the digits mant, count of them behind the point, and the
\* exponent ex.  The texts to-json writes denote integers.
Scaled(mant, count, ex) ==
    IF ex.val >= count THEN [num |-> mant * Pow10(ex.val - count), pos |-> ex.pos]
    ELSE [num |-> mant \div Pow10(count - ex.val), pos |-> ex.pos]

\* The fraction of a number whose integer part whole was read.
ScanFraction(src, whole) ==
    IF At(src, whole.pos) = 46 THEN ScanDigits(src, whole.pos + 1, whole.val, 0)
    ELSE [val |-> whole.val, pos |-> whole.pos, count |-> 0]

\* The magnitude strtod reads at pos.
Magnitude(src, frac) == Scaled(frac.val, frac.count, ScanExponent(src, frac.pos))

\* strtod(start, &end) for a decimal number.
Strtod(src, pos) ==
    LET first == IF At(src, pos) \in {43, 45} THEN pos + 1 ELSE pos
        mag   == Magnitude(src, ScanFraction(src, ScanDigits(src, first, 0, 0)))
    IN [num |-> IF At(src, pos) = 45 THEN 0 - mag.num ELSE mag.num, pos |-> mag.pos]

json_parse_number(src, pos) ==
    Parsed(Strtod(src, pos).pos, "", PITH_NUMBER(Strtod(src, pos).num))

\* strncmp(jp->src + jp->pos, word, strlen(word)) == 0
Matches(src, pos, word) == \A i \in 1..Len(word) : At(src, pos + i - 1) = word[i]

\* pith_dict_set_value on a dictionary held by content.
set_value(slots, name, value) ==
    IF \E i \in 1..Len(slots) : slots[i].name = name
    THEN LET i == CHOOSE j \in 1..Len(slots) :
                     slots[j].name = name /\ \A h \in 1..(j - 1) : slots[h].name # name
         IN [slots EXCEPT ![i] = Slot(name, 0, 0, TRUE, value)]
    ELSE Append(slots, Slot(name, 0, 0, TRUE, value))

RECURSIVE json_parse_value(_, _), ArrayLoop(_, _, _), ObjectLoop(_, _, _)

\* After an item of an array: ] ends the array, a comma goes on.
ArrayNext(src, item, items) ==
    LET pos == json_skip_ws(src, item.pos) IN
    IF item.error # "" THEN Parsed(item.pos, item.error, PITH_NIL)
    ELSE IF At(src, pos) = 93 THEN Parsed(pos + 1, "", PITH_ARRAY(Append(items, item.value)))
    ELSE IF At(src, pos) = 44 THEN ArrayLoop(src, pos + 1, Append(items, item.value))
    ELSE Parsed(pos, "Expected ',' or ']'", PITH_NIL)

ArrayLoop(src, pos, items) ==
    ArrayNext(src, json_parse_value(src, json_skip_ws(src, pos)), items)

json_parse_array(src, pos) ==
    IF At(src, json_skip_ws(src, pos + 1)) = 93
    THEN Parsed(json_skip_ws(src, pos + 1) + 1, "", PITH_ARRAY(<< >>))
    ELSE ArrayLoop(src, json_skip_ws(src, pos + 1), << >>)

\* After the value of a key: } ends the object, a comma goes on.
ObjectNext(src, key, val, slots) ==
    LET pos == json_skip_ws(src, val.pos) IN
    IF val.error # "" THEN Parsed(val.pos, val.error, PITH_NIL)
    ELSE IF At(src, pos) = 125
    THEN Parsed(pos + 1, "", PITH_DATA("", "", set_value(slots, key.value.string, val.value)))
    ELSE IF At(src, pos) = 44
    THEN ObjectLoop(src, pos + 1, set_value(slots, key.value.string, val.value))
    ELSE Parsed(pos, "Expected ',' or '}'", PITH_NIL)

\* After a key: the colon, then the value.
ObjectValue(src, key, slots) ==
    LET pos == json_skip_ws(src, key.pos) IN
    IF At(src, pos) # 58 THEN Parsed(pos, "Expected ':'", PITH_NIL)
    ELSE ObjectNext(src, key, json_parse_value(src, json_skip_ws(src, pos + 1)), slots)

ObjectLoop(src, pos, slots) ==
    IF At(src, json_skip_ws(src, pos)) # 34
    THEN Parsed(json_skip_ws(src, pos), "Expected string key", PITH_NIL)
    ELSE ObjectValue(src, json_parse_string(src, json_skip_ws(src, pos)), slots)

json_parse_object(src, pos) ==
    IF At(src, json_skip_ws(src, pos + 1)) = 125
    THEN Parsed(json_skip_ws(src, pos + 1) + 1, "", PITH_DATA("", "", << >>))
    ELSE ObjectLoop(src, json_skip_ws(src, pos + 1), << >>)

\* json_parse_value, called where the white space has been skipped.
json_parse_value(src, pos) ==
    CASE At(src, pos) = 34  -> json_parse_string(src, pos)
      [] At(src, pos) = 91  -> json_parse_array(src, pos)
      [] At(src, pos) = 123 -> json_parse_object(src, pos)
      [] At(src, pos) = 45 \/ (At(src, pos) >= 48 /\ At(src, pos) <= 57)
                            -> json_parse_number(src, pos)
      [] OTHER ->
           IF Matches(src, pos, <<116, 114, 117, 101>>)
           THEN Parsed(pos + 4, "", PITH_BOOL(TRUE))
           ELSE IF Matches(src, pos, <<102, 97, 108, 115, 101>>)
           THEN Parsed(pos + 5, "", PITH_BOOL(FALSE))
           ELSE IF Matches(src, pos, <<110, 117, 108, 108>>)
           THEN Parsed(pos + 4, "", PITH_NIL)
           ELSE Parsed(pos, "Unexpected character", PITH_NIL)

\* The result of json_parse_object is pushed, or its error is raised.
PushParsed(r, result) ==
    IF result.error # ""
    THEN R(pith_error(r, "JSON parse error: " \o result.error), FALSE)
    ELSE pith_push(r, result.value)

\* parse-json: ( str -- map ).
builtin_parse_json(r) ==
    IF ~pith_stack_has(r, 1) THEN R(r, FALSE)
    ELSE IF pith_pop(r).type # "string"
    THEN R(pith_error(pith_pop_rt(r), "parse-json requires a string"), FALSE)
    ELSE IF At(pith_pop(r).string, json_skip_ws(pith_pop(r).string, 1)) # 123
    THEN R(pith_error(pith_pop_rt(r), "parse-json requires JSON object at root"),
           FALSE)
    ELSE PushParsed(pith_pop_rt(r),
                    json_parse_object(pith_pop(r).string,
                                      json_skip_ws(pith_pop(r).string, 1)))

(***************************************************************************)
(* The round trip through JSON, for the dictionaries of pure data below:   *)
(* one slot a holding a scalar, an array of one scalar or a dictionary of  *)
(* one scalar, or no slot at all.                                          *)
(***************************************************************************)
JsonScalars ==
    {PITH_NIL, PITH_BOOL(TRUE), PITH_BOOL(FALSE)}
    \cup {PITH_NUMBER(n) : n \in {0, 7, 0 - 3, 120, 999999, 1000000, 1234567,
                                  0 - 2500000}}
    \cup {PITH_STRING(t) : t \in {<< >>, <<97>>, <<34>>, <<92>>, <<10>>, <<9>>,
                                <<97, 34, 98>>, <<1>>, <<47>>}}

JsonInputs ==
    {PITH_DATA("", "", << >>)}
    \cup {PITH_DATA("", "", <<Slot(<<97>>, 0, 0, TRUE, v)>>) : v \in JsonScalars}
    \cup {PITH_DATA("", "", <<Slot(<<97>>, 0, 0, TRUE, PITH_ARRAY(<<v>>))>>) : v \in JsonScalars}
    \cup {PITH_DATA("", "", <<Slot(<<97>>, 0, 0, TRUE, PITH_DATA("", "", <<Slot(<<98>>, 0, 0, TRUE, v)>>))>>) :
             v \in JsonScalars}
    \cup {PITH_DATA("", "", <<Slot(<<97>>, 0, 0, TRUE, v), Slot(<<98>>, 0, 0, TRUE, PITH_NUMBER(7))>>) :
             v \in JsonScalars}

\* The dictionary is on the stack.
JsonInit ==
    /\ proj \in JsonInputs
    /\ tokens = << >>
    /\ rt = pith_push(pith_runtime_new, proj).rt
    /\ calls = 0
    /\ last = [op |-> "new", name |-> "", ok |-> TRUE]

ToJson ==
    /\ last.op = "new"
    /\ Return("word", "to-json", builtin_to_json(Begin(rt)))

ParseJson ==
    /\ last.name = "to-json" /\ last.ok
    /\ Return("word", "parse-json", builtin_parse_json(Begin(rt)))

JsonNext == ToJson \/ ParseJson

JsonSpec == JsonInit /\ [][JsonNext]_vars

(***************************************************************************)
(* sanitize, on values held by content.                                    *)
(***************************************************************************)
RECURSIVE pith_value_sanitize(_), SanitizeSlots(_, _),
          pith_array_sanitize(_), pith_array_sanitize_reversed(_)

\* The loop of pith_dict_sanitize: the cached slots are set in copy, each
\* with its value sanitized; the slots with code are skipped.
SanitizeSlots(slots, copy) ==
    IF slots = << >> THEN copy
    ELSE SanitizeSlots(Tail(slots),
                       IF Head(slots).is_cached
                       THEN set_value(copy, Head(slots).name,
                                      pith_value_sanitize(Head(slots).cached))
                       ELSE copy)

\* The copy has the name of src and no parent.
pith_dict_sanitize(src) == PITH_DATA(src.name, "", SanitizeSlots(src.slots, << >>))

\* A copy that is filled from the back.
pith_array_sanitize_reversed(items) ==
    IF items = << >> THEN << >>
    ELSE pith_array_sanitize_reversed(Tail(items))
         \o <<pith_value_sanitize(Head(items))>>

pith_array_sanitize(items) ==
    IF items = << >> THEN << >>
    ELSE <<pith_value_sanitize(Head(items))>> \o pith_array_sanitize(Tail(items))

pith_value_sanitize(value) ==
    CASE value.type = "dict"  -> pith_dict_sanitize(value)
      [] value.type = "array" -> PITH_ARRAY(pith_array_sanitize(value.items))
      [] value.type = "block" -> PITH_NIL
      [] value.type = "view"  -> PITH_NIL
      [] OTHER                -> pith_value_copy(value)

\* sanitize: ( value -- value ).  The operand is held by content and leaves
\* the state when it is popped.
builtin_sanitize(r) ==
    IF ~pith_stack_has(r, 1) THEN R(r, FALSE)
    ELSE pith_push(pith_pop_rt(r), pith_value_sanitize(pith_pop(r)))

\* The values sanitize is applied to: scalars, Blocks, Views and Signals,
\* arrays of two of them, and dictionaries with a parent, a slot with code,
\* a slot that is set twice, nested arrays and nested dictionaries.
SanitizeLeaves ==
    {PITH_NIL, PITH_NUMBER(7), PITH_STRING("s"), PITH_BLOCK(1, 3),
     PITH_VIEW(pith_view_text("t")), PITH_SIGNAL(1)}

SanitizeInputs ==
    SanitizeLeaves
    \cup {PITH_ARRAY(<<x, y>>) : x \in SanitizeLeaves, y \in SanitizeLeaves}
    \cup {PITH_DATA("d", "base",
                    <<Slot("run", 4, 6, FALSE, PITH_NIL),
                      Slot("x", 0, 0, TRUE, x),
                      Slot("y", 0, 0, TRUE, PITH_ARRAY(<<y, x>>)),
                      Slot("x", 0, 0, TRUE, y)>>) :
             x \in SanitizeLeaves, y \in SanitizeLeaves}
    \cup {PITH_DATA("d", "",
                    <<Slot("in", 0, 0, TRUE,
                           PITH_DATA("e", "d", <<Slot("go", 7, 9, FALSE, PITH_NIL),
                                                 Slot("x", 0, 0, TRUE, x)>>)),
                      Slot("y", 0, 0, TRUE, y)>>) :
             x \in SanitizeLeaves, y \in SanitizeLeaves}

\* The value is on the stack.
SanitizeInit ==
    /\ proj \in SanitizeInputs
    /\ tokens = << >>
    /\ rt = pith_push(pith_runtime_new, proj).rt
    /\ calls = 0
    /\ last = [op |-> "new", name |-> "", ok |-> TRUE]

Sanitize ==
    /\ calls < MaxCalls
    /\ Return("word", "sanitize", builtin_sanitize(Begin(rt)))

SanitizeSpec == SanitizeInit /\ [][Sanitize]_vars

(***************************************************************************)
(* Gap buffers.  buffer is the array of capacity bytes, byte i of C being  *)
(* buffer[i + 1]; the bytes malloc returned are whatever fill was drawn.   *)
(* An int has the values -INT_MAX - 1 .. INT_MAX.                          *)
(***************************************************************************)
PITH_GAPBUF(gb) == [type |-> "gapbuf", gapbuf |-> gb]

\* memmove(buffer + dst, buffer + src, n)
Memmove(buffer, dst, src, n) ==
    [i \in 1..Len(buffer) |->
        IF i - 1 >= dst /\ i - 1 < dst + n THEN buffer[(i - 1) - dst + src + 1]
        ELSE buffer[i]]

pith_gapbuf_from_string(str, fill) ==
    [capacity  |-> Len(str) + GAP_BUFFER_MIN_GAP,
     buffer    |-> [i \in 1..GAP_BUFFER_MIN_GAP |-> fill] \o str,
     gap_start |-> 0,
     gap_end   |-> GAP_BUFFER_MIN_GAP]

pith_gapbuf_copy(gb) == gb

pith_gapbuf_length(gb) == gb.capacity - (gb.gap_end - gb.gap_start)

\* The gap changes its place and the content is left where it was.
pith_gapbuf_move_gap_no_shift(gb, pos) ==
    LET len == pith_gapbuf_length(gb)
        to  == IF pos > len THEN len ELSE pos
    IN [gb EXCEPT !.gap_start = to, !.gap_end = to + (gb.gap_end - gb.gap_start)]

pith_gapbuf_move_gap(gb, pos) ==
    LET len == pith_gapbuf_length(gb)
        to  == IF pos > len THEN len ELSE pos
    IN IF to = gb.gap_start THEN gb
       ELSE IF to < gb.gap_start
       THEN LET shift == gb.gap_start - to
            IN [gb EXCEPT !.buffer = Memmove(@, gb.gap_end - shift, to, shift),
                          !.gap_start = to,
                          !.gap_end = @ - shift]
       ELSE LET shift == to - gb.gap_start
            IN [gb EXCEPT !.buffer = Memmove(@, gb.gap_start, gb.gap_end, shift),
                          !.gap_start = @ + shift,
                          !.gap_end = @ + shift]

\* (int)gb->gap_start + delta: a sum beyond INT_MAX is undefined; wraps tells
\* whether the build wraps it around or goes on with the sum.
IntSum(a, b, wraps) ==
    IF a + b > INT_MAX /\ wraps THEN a + b - 2 * (INT_MAX + 1) ELSE a + b

pith_gapbuf_move(gb, delta, wraps) ==
    LET len   == pith_gapbuf_length(gb)
        sum   == IntSum(gb.gap_start, delta, wraps)
        floor == IF sum < 0 THEN 0 ELSE sum
    IN pith_gapbuf_move_gap(gb, IF floor > len THEN len ELSE floor)

pith_gapbuf_goto(gb, pos) == pith_gapbuf_move_gap(gb, pos)

pith_gapbuf_to_string(gb) ==
    SubSeq(gb.buffer, 1, gb.gap_start) \o SubSeq(gb.buffer, gb.gap_end + 1, gb.capacity)

\* (size_t)number: the conversion of a negative number is undefined; wraps
\* tells whether the build wraps it around or saturates at 0.
ToSize(n, wraps) ==
    IF n >= 0 THEN n ELSE IF wraps THEN 2 * (INT_MAX + 1) + n ELSE 0

\* The checks gap-move and gap-goto start with: ( n gb -- ... ).
GapOperands(r, who) ==
    IF pith_pop(r).type # "gapbuf"
    THEN pith_error(pith_pop_rt(pith_pop_rt(r)), who \o " requires a gap buffer")
    ELSE IF pith_pop(pith_pop_rt(r)).type # "number"
    THEN pith_error(pith_pop_rt(pith_pop_rt(r)), who \o " requires a number")
    ELSE pith_pop_rt(pith_pop_rt(r))

\* gap-move: ( n gb -- gb ).
builtin_gap_move(r, wraps) ==
    IF ~pith_stack_has(r, 2) THEN R(r, FALSE)
    ELSE IF GapOperands(r, "gap-move").has_error
    THEN R(GapOperands(r, "gap-move"), FALSE)
    ELSE pith_push(GapOperands(r, "gap-move"),
                   PITH_GAPBUF(pith_gapbuf_move(
                       pith_gapbuf_copy(pith_pop(r).gapbuf),
                       pith_pop(pith_pop_rt(r)).number, wraps)))

\* gap-goto: ( n gb -- gb ).
builtin_gap_goto(r, wraps) ==
    IF ~pith_stack_has(r, 2) THEN R(r, FALSE)
    ELSE IF GapOperands(r, "gap-goto").has_error
    THEN R(GapOperands(r, "gap-goto"), FALSE)
    ELSE pith_push(GapOperands(r, "gap-goto"),
                   PITH_GAPBUF(pith_gapbuf_goto(
                       pith_gapbuf_copy(pith_pop(r).gapbuf),
                       ToSize(pith_pop(pith_pop_rt(r)).number, wraps))))

\* The strings the buffers are made of, and the numbers they are moved by
\* and to.
GapStrings ==
    {<< >>, <<97>>, <<97, 98>>, <<98, 97>>, <<97, 98, 99>>, <<99, 97, 98>>}

GapNumbers == {0 - INT_MAX - 1, 0 - 2, 0 - 1, 0, 1, 2, 3, INT_MAX}

\* string>gap has made a buffer of the string, and it is on the stack.
GapInit ==
    /\ proj \in GapStrings
    /\ tokens = << >>
    /\ \E fill \in {0, 120} :
          rt = pith_push(pith_runtime_new,
                         PITH_GAPBUF(pith_gapbuf_from_string(proj, fill))).rt
    /\ calls = 0
    /\ last = [op |-> "new", name |-> "", ok |-> TRUE, arg |-> 0]

\* The program has pushed n below the buffer.
WithNumber(r, n) == [r EXCEPT !.stack = <<PITH_NUMBER(n)>> \o @]

GapReturn(op, n, res) ==
    /\ rt' = res.rt
    /\ last' = [op |-> op, name |-> "", ok |-> res.ok, arg |-> n]
    /\ calls' = calls + 1
    /\ UNCHANGED <<proj, tokens>>

GapMove ==
    /\ calls < MaxCalls
    /\ \E n \in GapNumbers, wraps \in BOOLEAN :
          GapReturn("gap-move", n, builtin_gap_move(WithNumber(Begin(rt), n), wraps))

GapGoto ==
    /\ calls < MaxCalls
    /\ \E n \in GapNumbers, wraps \in BOOLEAN :
          GapReturn("gap-goto", n, builtin_gap_goto(WithNumber(Begin(rt), n), wraps))

GapNext == GapMove \/ GapGoto

GapSpec == GapInit /\ [][GapNext]_vars

(***************************************************************************)
(* Editing a gap buffer: insert and delete beside move and goto            *)
(***************************************************************************)
\* malloc'ed bytes hold anything; fill is what they happen to hold.
pith_gapbuf_new(fill) ==
    [capacity  |-> GAP_BUFFER_INITIAL_SIZE,
     buffer    |-> [i \in 1..GAP_BUFFER_INITIAL_SIZE |-> fill],
     gap_start |-> 0,
     gap_end   |-> GAP_BUFFER_INITIAL_SIZE]

pith_gapbuf_gap_size(gb) == gb.gap_end - gb.gap_start

\* A gap that is made larger where it starts, with the content behind it
\* left where it was in the old buffer.
pith_gapbuf_expand_gap_in_place(gb, min_size, fill) ==
    IF pith_gapbuf_gap_size(gb) >= min_size THEN gb
    ELSE [gb EXCEPT !.capacity = @ + (min_size - pith_gapbuf_gap_size(gb))
                                   + GAP_BUFFER_MIN_GAP,
                    !.buffer = @ \o [i \in 1..((min_size - pith_gapbuf_gap_size(gb))
                                               + GAP_BUFFER_MIN_GAP) |-> fill]]

pith_gapbuf_expand_gap(gb, min_size, fill) ==
    LET gap_size == pith_gapbuf_gap_size(gb) IN
    IF gap_size >= min_size THEN gb
    ELSE LET need         == min_size - gap_size
             new_capacity == gb.capacity + need + GAP_BUFFER_MIN_GAP
             post_gap_len == gb.capacity - gb.gap_end
         IN [capacity  |-> new_capacity,
             buffer    |-> SubSeq(gb.buffer, 1, gb.gap_start)
                           \o [i \in 1..(new_capacity - post_gap_len - gb.gap_start)
                                 |-> fill]
                           \o SubSeq(gb.buffer, gb.gap_end + 1, gb.capacity),
             gap_start |-> gb.gap_start,
             gap_end   |-> new_capacity - post_gap_len]

\* memcpy(gb->buffer + gb->gap_start, str, len)
pith_gapbuf_insert(gb, str, fill) ==
    IF Len(str) = 0 THEN gb
    ELSE LET grown == pith_gapbuf_expand_gap(gb, Len(str), fill) IN
         [grown EXCEPT !.buffer = [i \in 1..Len(@) |->
                                      IF i > grown.gap_start
                                         /\ i <= grown.gap_start + Len(str)
                                      THEN str[i - grown.gap_start] ELSE @[i]],
                       !.gap_start = @ + Len(str)]

\* A delete that takes n as it is.
pith_gapbuf_delete_unclamped(gb, n, wraps) ==
    IF n > 0 THEN [gb EXCEPT !.gap_end = @ + n]
    ELSE IF n < 0 THEN [gb EXCEPT !.gap_start = @ + n]
    ELSE gb

\* -n for n = INT_MIN is undefined: the build wraps it around to INT_MIN,
\* which (size_t) makes larger than any avail, or goes on with INT_MAX + 1.
pith_gapbuf_delete(gb, n, wraps) ==
    IF n > 0
    THEN LET post_gap == gb.capacity - gb.gap_end
         IN [gb EXCEPT !.gap_end = @ + (IF n > post_gap THEN post_gap ELSE n)]
    ELSE IF n < 0
    THEN LET avail == gb.gap_start
             minus == IF n = 0 - INT_MAX - 1 /\ wraps
                      THEN ToSize(n, TRUE) ELSE 0 - n
         IN [gb EXCEPT !.gap_start = @ + (IF minus > avail THEN 0 - avail ELSE n)]
    ELSE gb

\* gap-insert: ( str gb -- gb ).
builtin_gap_insert(r, fill) ==
    IF ~pith_stack_has(r, 2) THEN R(r, FALSE)
    ELSE IF pith_pop(r).type # "gapbuf"
    THEN R(pith_error(pith_pop_rt(pith_pop_rt(r)),
                      "gap-insert requires a gap buffer"), FALSE)
    ELSE IF pith_pop(pith_pop_rt(r)).type # "string"
    THEN R(pith_error(pith_pop_rt(pith_pop_rt(r)),
                      "gap-insert requires a string to insert"), FALSE)
    ELSE pith_push(pith_pop_rt(pith_pop_rt(r)),
                   PITH_GAPBUF(pith_gapbuf_insert(
                       pith_gapbuf_copy(pith_pop(r).gapbuf),
                       pith_pop(pith_pop_rt(r)).string, fill)))

\* gap-delete: ( n gb -- gb ).
builtin_gap_delete(r, wraps) ==
    IF ~pith_stack_has(r, 2) THEN R(r, FALSE)
    ELSE IF GapOperands(r, "gap-delete").has_error
    THEN R(GapOperands(r, "gap-delete"), FALSE)
    ELSE pith_push(GapOperands(r, "gap-delete"),
                   PITH_GAPBUF(pith_gapbuf_delete(
                       pith_gapbuf_copy(pith_pop(r).gapbuf),
                       pith_pop(pith_pop_rt(r)).number, wraps)))

\* The strings that are inserted; the last one is longer than a new gap.
InsertStrings == << << >>, <<120>>, <<121, 122>>, <<120, 121, 122>> >>

\* new-gap or string>gap has made the buffer, and it is on the stack.
EditInit ==
    /\ proj \in GapStrings
    /\ tokens = << >>
    /\ \E fill \in {0, 120}, fresh \in BOOLEAN :
          rt = pith_push(pith_runtime_new,
                         PITH_GAPBUF(IF fresh /\ proj = << >>
                                     THEN pith_gapbuf_new(fill)
                                     ELSE pith_gapbuf_from_string(proj, fill))).rt
    /\ calls = 0
    /\ last = [op |-> "new", name |-> "", ok |-> TRUE, arg |-> 0]

\* The program has pushed the string below the buffer.
WithString(r, str) == [r EXCEPT !.stack = <<PITH_STRING(str)>> \o @]

GapInsert ==
    /\ calls < MaxCalls
    /\ \E s \in 1..Len(InsertStrings), fill \in {0, 120} :
          GapReturn("gap-insert", s,
                    builtin_gap_insert(WithString(Begin(rt), InsertStrings[s]), fill))

GapDelete ==
    /\ calls < MaxCalls
    /\ \E n \in GapNumbers, wraps \in BOOLEAN :
          GapReturn("gap-delete", n, builtin_gap_delete(WithNumber(Begin(rt), n), wraps))

EditNext == GapMove \/ GapGoto \/ GapInsert \/ GapDelete

EditSpec == EditInit /\ [][EditNext]_vars

(***************************************************************************)
(* Loading on its own: the project is a text put together from a few       *)
(* pieces, some of which leave a block open; the host only loads it.       *)
(***************************************************************************)
\* The pieces, each a list of source lines:
\*   a:            x:            y: 2          end          run: do 1 end
\*                   1
LoadPieces ==
    { << <<W("a"), T_COLON>> >>,
      << <<W("x"), T_COLON>>, <<N(1)>> >>,
      << <<W("y"), T_COLON, N(2)>> >>,
      << <<T_END>> >>,
      << <<W("run"), T_COLON, T_DO, N(1), T_END>> >> }

RECURSIVE LoadSources(_)
\* The texts of at most n pieces.
LoadSources(n) ==
    IF n = 0 THEN { << >> }
    ELSE LET shorter == LoadSources(n - 1) IN
         shorter \cup {src \o piece : src \in shorter, piece \in LoadPieces}

LoadInit ==
    /\ proj \in LoadSources(MaxPieces)
    /\ tokens = Lines(proj, 1)
    /\ rt = pith_runtime_new
    /\ calls = 0
    /\ last = [op |-> "new", name |-> proj, ok |-> TRUE]

LoadSpec == LoadInit /\ [][Load]_vars

(***************************************************************************)
(* Loading one dictionary: the project is a top-level dictionary a whose   *)
(* slots p, q, r are written in the forms of LANGUAGE.md, single-line      *)
(* slots without an end and multi-line slots with their own end.           *)
(***************************************************************************)
SlotForms == {"one", "one-do", "one-if", "multi", "multi-do", "do-multi", "do-open"}

\* The body of a slot written in a form, line by line; the first line is the
\* rest of the declaration's line.
\*   one       n: 1               multi      n:             do-multi  n: do 1 end
\*   one-do    n: do 1 end                     1 2                      each
\*   one-if    n: 1 if 2 else 3 end          end                      end
\*   multi-do  n:                 do-open    n: do
\*               do 1 end                      1
\*             end                             end
\*                                           end
FormBody(form) ==
    CASE form = "one"      -> << <<N(1)>> >>
      [] form = "one-do"   -> << <<T_DO, N(1), T_END>> >>
      [] form = "one-if"   -> << <<N(1), T_IF, N(2), T_ELSE, N(3), T_END>> >>
      [] form = "multi"    -> << << >>, <<N(1), N(2)>> >>
      [] form = "multi-do" -> << << >>, <<T_DO, N(1), T_END>> >>
      [] form = "do-multi" -> << <<T_DO, N(1), T_END>>, <<W("each")>> >>
      [] form = "do-open"  -> << <<T_DO>>, <<N(1)>>, <<T_END>> >>

\* The lines of slot name in a form: the declaration, the body, and the
\* slot's own end when the body goes on after the declaration's line.
FormLines(name, form) ==
    << <<W(name), T_COLON>> \o Head(FormBody(form)) >>
    \o Tail(FormBody(form))
    \o (IF Len(FormBody(form)) > 1 THEN << <<T_END>> >> ELSE << >>)

SlotName(i) == <<"p", "q", "r", "s">>[i]

RECURSIVE DictLines(_, _)
DictLines(forms, i) ==
    IF i > Len(forms) THEN << >>
    ELSE FormLines(SlotName(i), forms[i]) \o DictLines(forms, i + 1)

DictSource(forms) == << <<W("a"), T_COLON>> >> \o DictLines(forms, 1) \o << <<T_END>> >>

DictInit ==
    /\ proj \in UNION {[1..n -> SlotForms] : n \in 1..MaxSlots}
    /\ tokens = Lines(DictSource(proj), 1)
    /\ rt = pith_runtime_new
    /\ calls = 0
    /\ last = [op |-> "new", name |-> proj, ok |-> TRUE]

DictSpec == DictInit /\ [][Load]_vars

(***************************************************************************)
(* Properties.  Events(ev) are the places in the record of the last call   *)
(* where an event of that kind lies.                                       *)
(***************************************************************************)
Events(ev) == {k \in 1..Len(rt.log) : rt.log[k].ev = ev}

\* The last call was a call of pith_execute_word or pith_execute_block that
\* returned (the process did not die in it).
ExecuteReturned == last.op \in {"word", "click"} /\ ~rt.crashed

\* C1: whenever pith_execute_word or pith_execute_block returns failure to the
\* host, has_error is set and there is a message, stack underflow in a
\* builtin included.
C1_FailureSetsError ==
    (ExecuteReturned /\ ~last.ok) => (rt.has_error /\ rt.error # "")

\* C2: after the first failure inside an execute call no further token is
\* executed, no block is invoked, no array is collected or pushed, and the
\* operand stack stays as it was at that failure.
C2_AbortsAtFirstFailure ==
    \A k \in Events("fail") :
        /\ \A j \in (k + 1)..Len(rt.log) :
              /\ rt.log[j].ev \notin {"tok", "block", "collect", "array"}
              /\ rt.log[j].stack = rt.log[k].stack
        /\ rt.stack = rt.log[k].stack

RECURSIVE DictState(_, _)
\* What dictionary d holds: its parent link, whether it is still allocated,
\* and its slots in order, a cached Dict value standing for what it holds.
DictState(r, d) ==
    [parent |-> r.dicts[d].parent,
     live   |-> r.dicts[d].freed = 0,
     slots  |-> [i \in 1..Len(r.dicts[d].slots) |->
                    IF IsDictSlot(r.dicts[d].slots[i])
                    THEN [name  |-> r.dicts[d].slots[i].name,
                          value |-> DictState(r, r.dicts[d].slots[i].cached.dict)]
                    ELSE [name |-> r.dicts[d].slots[i].name,
                          slot |-> r.dicts[d].slots[i]]]]

\* The dictionaries a well-typed call of the map builtin name takes from the
\* stack: the map of ( value map key -- ) set and of ( map key -- ) remove,
\* both maps of ( map1 map2 -- ) merge.
MapOperands(r, name) ==
    LET n == stack_top(r) IN
    IF name = "set" /\ n >= 3 /\ r.stack[n].type = "string" /\ r.stack[n - 1].type = "dict"
    THEN {r.stack[n - 1].dict}
    ELSE IF name = "remove" /\ n >= 2 /\ r.stack[n].type = "string"
            /\ r.stack[n - 1].type = "dict"
    THEN {r.stack[n - 1].dict}
    ELSE IF name = "merge" /\ n >= 2 /\ r.stack[n].type = "dict"
            /\ r.stack[n - 1].type = "dict"
    THEN {r.stack[n].dict, r.stack[n - 1].dict}
    ELSE {}

\* C3: copy-on-write.  A call of set, remove or merge leaves every operand
\* dictionary d as it was (slots, cached values, parent) and pushes a newly
\* allocated dictionary.
C3_CopyOnWrite ==
    [][(last'.op = "word" /\ last'.name \in {"set", "remove", "merge"}
        /\ calls' = calls + 1 /\ ~rt.ub /\ MapOperands(rt, last'.name) # {})
       => /\ \A d \in MapOperands(rt, last'.name) : DictState(rt', d) = DictState(rt, d)
          /\ last'.ok
          /\ pith_peek(rt').type = "dict"
          /\ pith_peek(rt').dict > Len(rt.dicts)]_vars

Max(set) == CHOOSE x \in set : \A y \in set : y <= x
Min(set) == CHOOSE x \in set : \A y \in set : x <= y

\* The value signal g holds before place k of the record lg of a call that
\* began with g holding before: what the last write before k set, if any.
SignalValueAt(lg, g, k, before) ==
    LET writes == {j \in 1..(k - 1) : lg[j].ev = "sigwrite" /\ lg[j].aux = g}
    IN IF writes = {} THEN before ELSE lg[Max(writes)].val

RECURSIVE ParentChain(_, _)
\* d, its parent, the parent of that, ...
ParentChain(r, d) ==
    IF d = NULL THEN << >> ELSE <<d>> \o ParentChain(r, r.dicts[d].parent)

\* The first dictionary on the parent chain of d with a slot called name of
\* its own, and that slot; NULL_SLOT when there is none.
NearestSlot(r, d, name) ==
    LET chain == ParentChain(r, d)
        hits  == {i \in 1..Len(chain) : LocalIndex(r.dicts[chain[i]].slots, name) # 0}
    IN IF hits = {} THEN NULL_SLOT
       ELSE [dict |-> chain[Min(hits)],
             idx  |-> LocalIndex(r.dicts[chain[Min(hits)]].slots, name)]

\* Every slot name of the heap, and one that names no slot.
SlotNames(r) ==
    UNION {{r.dicts[d].slots[i].name : i \in 1..Len(r.dicts[d].slots)} :
             d \in 1..Len(r.dicts)} \cup {"absent"}

\* C5: pith_dict_lookup yields the dictionary's own slot of that name when it
\* has one, otherwise what the lookup in its parent yields, NULL when no
\* dictionary of the parent chain has one; and a bare word that is run as a
\* slot runs the slot so found from the current dictionary.
C5_LookupFollowsParents ==
    /\ \A d \in 1..Len(rt.dicts) : \A name \in SlotNames(rt) :
          pith_dict_lookup(rt, d, name) = NearestSlot(rt, d, name)
    /\ \A k \in Events("slot") :
          [dict |-> rt.log[k].dict, idx |-> rt.log[k].aux]
             = NearestSlot(rt, rt.log[k].cur, rt.log[k].name)

\* The word greet was executed with b current, b (parent: a) has no greet of
\* its own, the slot run was a's greet and "hi" was pushed.
C5_Witness ==
    \E k \in Events("slot") :
        /\ rt.log[k].name = "greet"
        /\ rt.dicts[rt.log[k].cur].name = "b"
        /\ rt.dicts[rt.log[k].dict].name = "a"
        /\ rt.dicts[rt.log[k].cur].parent = rt.log[k].dict
        /\ LocalIndex(rt.dicts[rt.log[k].cur].slots, "greet") = 0
        /\ pith_peek(rt) = PITH_STRING("hi")

\* The place where the token at of the frame at depth was dispatched, the
\* last time before place k.
Dispatch(k) ==
    Max({j \in 1..(k - 1) : /\ rt.log[j].ev = "tok"
                            /\ rt.log[j].at = rt.log[k].at
                            /\ rt.log[j].depth = rt.log[k].depth})

\* C6: when the interior of [ ... ] has left v1..vn (n >= 0) above the height
\* recorded at the bracket, the constructor leaves every value below that
\* height as it was and, the stack having room for one more value, leaves the
\* stack one value higher than at the bracket: one Array holding v1..vn in
\* the order they were pushed.
C6_ArrayCollects ==
    \A k \in Events("array") :
        LET height == rt.log[k].aux
            before == rt.log[Dispatch(k)].stack
            body   == rt.log[k - 1].stack
        IN /\ rt.log[k - 1].ev = "collect"
           /\ Len(before) = height
           /\ Len(body) >= height
           /\ SubSeq(rt.log[k].stack, 1, height) = SubSeq(body, 1, height)
           /\ height < PITH_STACK_MAX
              => /\ rt.log[k].ok
                 /\ rt.log[k].stack
                       = SubSeq(body, 1, height)
                           \o <<PITH_ARRAY(SubSeq(body, height + 1, Len(body)))>>

\* With 1 on the stack, [ 1 2 add ] was executed: the stack is 1 [3].
C6_Witness ==
    /\ last.op = "word" /\ last.name = "arr" /\ last.ok
    /\ rt.stack = <<PITH_NUMBER(1), PITH_ARRAY(<<PITH_NUMBER(3)>>)>>
    /\ Events("array") # {}

RECURSIVE ClosingEnd(_, _)
\* The end that closes the construct open at token j, depth constructs being
\* open there, every do and every if counted; -1 when the tokens run out.
ClosingEnd(j, depth) ==
    IF j > token_count THEN -1
    ELSE IF Tok(j).type \in {"DO", "IF"} THEN ClosingEnd(j + 1, depth + 1)
    ELSE IF Tok(j).type = "END"
         THEN IF depth = 1 THEN j ELSE ClosingEnd(j + 1, depth - 1)
    ELSE ClosingEnd(j + 1, depth)

\* C7: executing do B end pushes exactly one Block whose token range goes
\* from the token after do to the end that closes this do, found by counting
\* every nested do and if of B, executes none of B, and execution goes on at
\* the token after that end.
C7_DoCapturesBlock ==
    \A k \in Events("do") :
        LET e     == rt.log[k]
            close == ClosingEnd(e.at + 1, 1)
        IN /\ e.val = PITH_BLOCK(e.at + 1, close)
           /\ e.ok => e.stack = rt.log[k - 1].stack \o <<e.val>>
           /\ (k < Len(rt.log) /\ rt.log[k + 1].ev = "tok"
                 /\ rt.log[k + 1].depth = e.depth)
              => rt.log[k + 1].at = close + 1

Resolutions == {"builtin", "slot", "dict", "unknown"}

\* A root slot called name holds a dictionary.
TopLevelDict(r, name) ==
    \E i \in 1..Len(r.dicts[ROOT].slots) :
        /\ r.dicts[ROOT].slots[i].name = name
        /\ r.dicts[ROOT].slots[i].is_cached
        /\ r.dicts[ROOT].slots[i].cached.type = "dict"

\* What a bare word called name is, from the dictionary cur.
Resolution(r, cur, name) ==
    IF name \in BuiltinNames THEN "builtin"
    ELSE IF cur # NULL /\ NearestSlot(r, cur, name) # NULL_SLOT THEN "slot"
    ELSE IF TopLevelDict(r, name) THEN "dict"
    ELSE "unknown"

\* C8: a bare word is run as the builtin of its name; failing that as the
\* slot found from the current dictionary through the parent chain; failing
\* that as the top-level dictionary of its name; failing that, execution
\* fails with an unknown word error.  No slot called like a builtin is run.
C8_ResolutionOrder ==
    \A k \in 1..Len(rt.log) :
        LET e == rt.log[k] IN
        e.ev \in Resolutions =>
            /\ e.ev = Resolution(rt, e.cur, e.name)
            /\ e.ev = "slot" =>
                  /\ e.name \notin BuiltinNames
                  /\ [dict |-> e.dict, idx |-> e.aux] = NearestSlot(rt, e.cur, e.name)
            /\ e.ev = "unknown" =>
                  /\ k < Len(rt.log) /\ rt.log[k + 1].ev = "fail"
                  /\ (last.op \in {"word", "click"}
                        /\ \A j \in (k + 1)..Len(rt.log) : rt.log[j].ev = "fail")
                     => (rt.has_error /\ rt.error = "Unknown word: " \o e.name /\ ~last.ok)

\* The word dup was executed with b current, b has a slot called dup, and
\* what ran was the builtin: the 1 on the stack was duplicated.
C8_Witness ==
    /\ rt.stack = <<PITH_NUMBER(1), PITH_NUMBER(1)>>
    /\ \E k \in Events("builtin") :
          /\ rt.log[k].name = "dup"
          /\ rt.log[k].cur # NULL
          /\ rt.dicts[rt.log[k].cur].name = "b"
          /\ LocalIndex(rt.dicts[rt.log[k].cur].slots, "dup") # 0

\* The place where the block invoked at place k returned; past the end of the
\* record when it never did.
BlockReturn(k) ==
    LET ends == {j \in (k + 1)..Len(rt.log) :
                    rt.log[j].ev = "blockend" /\ rt.log[j].depth = rt.log[k].depth}
    IN IF ends = {} THEN Len(rt.log) + 1 ELSE Min(ends)

Falsy == {PITH_BOOL(FALSE), PITH_NIL, PITH_NUMBER(0)}

\* C10: if takes its first branch for every condition but false, nil and the
\* number 0, the empty string and the empty array included.
C10_Truthiness ==
    \A k \in Events("if") :
        LET e == rt.log[k] IN
        /\ (e.name = "then") <=> (e.val \notin Falsy)
        /\ (e.name = "then" /\ k < Len(rt.log) /\ rt.log[k + 1].ev = "tok")
           => rt.log[k + 1].at = e.at + 1

\* if was executed with the empty array on the stack and the first branch ran.
C10_Witness ==
    /\ pith_peek(rt) = PITH_STRING("T")
    /\ \E k \in Events("if") :
          rt.log[k].val = PITH_ARRAY(<< >>) /\ rt.log[k].name = "then"

\* The places in the record lg where the host's builtin invoked its block,
\* and where those invocations returned.
Invoked(lg) == {k \in 1..Len(lg) : lg[k].ev = "block" /\ lg[k].depth = 0}
Returns(lg) == {k \in 1..Len(lg) : lg[k].ev = "blockend" /\ lg[k].depth = 0}

\* The i-th place of the set of places.
Nth(places, i) == CHOOSE k \in places : Cardinality({j \in places : j <= k}) = i

\* The block consumed its argument and left exactly one result, every time:
\* it returned success with the stack as high as when it was invoked and
\* nothing but the top changed.
OneResultEach(lg) ==
    /\ Cardinality(Invoked(lg)) = Cardinality(Returns(lg))
    /\ \A i \in 1..Cardinality(Invoked(lg)) :
          LET b == lg[Nth(Invoked(lg), i)].stack
              e == lg[Nth(Returns(lg), i)].stack
          IN /\ lg[Nth(Returns(lg), i)].ok
             /\ Len(e) = Len(b)
             /\ SubSeq(e, 1, Len(e) - 1) = SubSeq(b, 1, Len(b) - 1)

\* The result the block left for the i-th element.
ResultOf(lg, i) ==
    lg[Nth(Returns(lg), i)].stack[Len(lg[Nth(Returns(lg), i)].stack)]

RECURSIVE Truthy(_, _, _)
\* The elements of items from the i-th on whose result is truthy.
Truthy(items, lg, i) ==
    IF i > Len(items) THEN << >>
    ELSE (IF ResultOf(lg, i) \in Falsy THEN << >> ELSE <<items[i]>>)
         \o Truthy(items, lg, i + 1)

\* C11: for an array A and a block that consumes its argument and leaves one
\* result, filter pushes a new array of the elements of A whose result is
\* truthy, in their order, and map pushes a new array whose i-th element is
\* the block's result for the i-th element of A.
C11_FilterMap ==
    [][(/\ last'.op = "word" /\ last'.name \in {"filter", "map"}
        /\ calls' = calls + 1
        /\ Len(rt.stack) >= 2
        /\ rt.stack[Len(rt.stack)].type = "block"
        /\ rt.stack[Len(rt.stack) - 1].type = "array"
        /\ OneResultEach(rt'.log))
       => LET A == rt.stack[Len(rt.stack) - 1].items
              below == SubSeq(rt.stack, 1, Len(rt.stack) - 2)
          IN /\ Cardinality(Invoked(rt'.log)) = Len(A)
             /\ last'.ok
             /\ last'.name = "filter" =>
                   rt'.stack = below \o <<PITH_ARRAY(Truthy(A, rt'.log, 1))>>
             /\ last'.name = "map" =>
                   rt'.stack = below \o
                       <<PITH_ARRAY([i \in 1..Len(A) |-> ResultOf(rt'.log, i)])>>]_vars

\* [1 2 3] was filtered with the block 2 = : the stack holds [2].
C11_Witness ==
    /\ last.op = "word" /\ last.name = "filter" /\ last.ok
    /\ Cardinality(Invoked(rt.log)) = 3
    /\ OneResultEach(rt.log)
    /\ rt.stack = <<PITH_ARRAY(<<PITH_NUMBER(2)>>)>>

\* The slot a get recorded at place k of the record looks up: the key on top
\* of the stack, in the dictionary below it.
GetSlot(k) ==
    LET st == rt.log[k].stack
    IN IF Len(st) >= 2 /\ st[Len(st)].type = "string" /\ st[Len(st) - 1].type = "dict"
       THEN pith_dict_lookup(rt, st[Len(st) - 1].dict, st[Len(st)].string)
       ELSE NULL_SLOT

\* C12: no read of a slot that caches a Signal leaves a Signal on the stack:
\* the value a bare word or a dotted path pushes for such a slot is not a
\* Signal, and neither is the value get pushes for it.
C12_ReadsUnwrapSignals ==
    /\ \A k \in Events("sigread") : rt.log[k].val.type # "signal"
    /\ \A k \in Events("builtin") :
          (/\ rt.log[k].name = "get"
           /\ k = Len(rt.log)
           /\ last.ok
           /\ GetSlot(k) # NULL_SLOT
           /\ SlotAt(rt, GetSlot(k)).is_cached
           /\ SlotAt(rt, GetSlot(k)).cached.type = "signal")
          => pith_peek(rt).type # "signal"

\* C13: the host clears the error flag between top-level invocations: the
\* flag is clear whenever the host mounts ui, runs a frame of the event loop
\* or runs main or exit, so that main is reported to have failed only for an
\* error of its own.
C13_ErrorClearedBetweenCalls ==
    [][last'.op \in {"mount", "frame", "main", "exit"} => ~rt.has_error]_vars

\* The lifecycle slot the phase op runs is absent from the project.
Absent(op) ==
    CASE op = "init"  -> proj.init = "none"
      [] op = "mount" -> proj.ui = "none"
      [] op = "main"  -> proj.main = "none"
      [] op = "exit"  -> proj.exit = "none"
      [] OTHER        -> FALSE

\* C14: in every run where the project loads, the host runs init, ui, main
\* and exit in that order, a phase whose slot is absent changes nothing and
\* raises no error, and exit, when the project has one, is executed in the
\* end.
C14_LifecycleOrder ==
    /\ [][/\ last'.op = "init"  => last.op = "load"
          /\ last'.op = "mount" => last.op = "init"
          /\ last'.op = "main"  => last.op \in {"mount", "frame"}
          /\ last'.op = "exit"  => last.op = "main"
          /\ Absent(last'.op) => (rt'.has_error = rt.has_error /\ rt'.stack = rt.stack)]_vars
    /\ (last.op = "load" /\ last.ok /\ proj.exit # "none") ~> (last.op = "exit")

\* C15: to-json followed by parse-json gives back a dictionary structurally
\* equal to the dictionary of pure data it was given, every number and every
\* string included.
C15_JsonRoundTrip ==
    last.name = "parse-json" => (last.ok /\ rt.stack = <<proj>>)

\* C16: sanitize is idempotent: sanitizing a sanitized value gives a value
\* structurally equal to it, whatever the value was (dictionaries with code
\* slots and parents, Blocks, Views, nested arrays and dictionaries).
C16_SanitizeIdempotent ==
    [][(last'.name = "sanitize" /\ last.name = "sanitize")
       => (last'.ok /\ rt'.stack = rt.stack)]_vars

\* A dictionary with a parent, a slot with code, a Block and a nested array
\* holding a View was sanitized twice.
C16_Witness ==
    /\ last.name = "sanitize" /\ calls = 2
    /\ proj = PITH_DATA("d", "base",
                        <<Slot("run", 4, 6, FALSE, PITH_NIL),
                          Slot("x", 0, 0, TRUE, PITH_BLOCK(1, 3)),
                          Slot("y", 0, 0, TRUE,
                               PITH_ARRAY(<<PITH_VIEW(pith_view_text("t")),
                                            PITH_BLOCK(1, 3)>>)),
                          Slot("x", 0, 0, TRUE, PITH_VIEW(pith_view_text("t")))>>)
    /\ rt.stack = <<PITH_DATA("d", "",
                              <<Slot("x", 0, 0, TRUE, PITH_NIL),
                                Slot("y", 0, 0, TRUE,
                                     PITH_ARRAY(<<PITH_NIL, PITH_NIL>>))>>)>>

\* The gap buffer on the stack.
TheBuffer == rt.stack[1].gapbuf

SameValue(a, b) ==
    /\ a.type = b.type
    /\ CASE a.type = "nil"    -> TRUE
         [] a.type = "bool"   -> a.boolean = b.boolean
         [] a.type = "number" -> a.number = b.number
         [] a.type = "string" -> a.string = b.string
         [] a.type = "dict"   -> a.dict = b.dict
         [] a.type = "signal" -> a.signal = b.signal
         [] OTHER             -> FALSE

\* C18: = pushes true for two primitives exactly when they have the same
\* type and value, and for two values of any other kind exactly when they
\* are the same object: a dictionary compared with itself is equal.
C18_Equality ==
    [][(/\ last'.op = "word" /\ last'.name = "="
        /\ calls' = calls + 1
        /\ ~rt'.crashed
        /\ Len(rt.stack) >= 2
        /\ rt.stack[Len(rt.stack)].type # "view"
        /\ rt.stack[Len(rt.stack) - 1].type # "view")
       => /\ last'.ok
          /\ rt'.stack = SubSeq(rt.stack, 1, Len(rt.stack) - 2)
                         \o <<PITH_BOOL(SameValue(rt.stack[Len(rt.stack) - 1],
                                                  rt.stack[Len(rt.stack)]))>>]_vars

RECURSIVE MatchingEnd(_, _)
\* The END that closes the block whose body goes on at token j with `open`
\* constructs still open (the block itself, every do and if, and every
\* multi-line slot, each of which takes one END); -1 when the text ends first.
MatchingEnd(j, open) ==
    IF j >= token_count \/ Tok(j).type = "EOF" THEN -1
    ELSE IF Tok(j).type \in {"DO", "IF"} THEN MatchingEnd(j + 1, open + 1)
    ELSE IF IsWordColon(j, token_count)
    THEN MatchingEnd(j + 2, IF IsMultiline(j + 2, Tok(j).line) THEN open + 1 ELSE open)
    ELSE IF Tok(j).type = "END"
    THEN IF open = 1 THEN j ELSE MatchingEnd(j + 1, open - 1)
    ELSE MatchingEnd(j + 1, open)

RECURSIVE Unterminated(_)
\* Some top-level WORD COLON block from token i on has no matching END.
Unterminated(i) ==
    IF i >= token_count \/ Tok(i).type = "EOF" THEN FALSE
    ELSE IF IsWordColon(i, token_count)
    THEN IF MatchingEnd(i + 2, 1) = -1 THEN TRUE
         ELSE Unterminated(MatchingEnd(i + 2, 1) + 1)
    ELSE Unterminated(i + 1)

\* C19: pith_runtime_load_string returns false with the runtime error set
\* whenever a top-level WORD COLON block reaches the end of the text before
\* its matching end; a load that returned true has registered only blocks
\* that stop at an END.
C19_UnterminatedBlockFails ==
    last.op = "load" =>
        /\ Unterminated(0) => (~last.ok /\ rt.has_error)
        /\ last.ok => \A s \in 1..Len(rt.dicts[ROOT].slots) :
                          Tok(rt.dicts[ROOT].slots[s].body_end).type = "END"

\* The dictionaries a cached slot of the root refers to.
RootDicts(r) ==
    {d \in 1..Len(r.dicts) :
        \E s \in 1..Len(r.dicts[ROOT].slots) :
            r.dicts[ROOT].slots[s].cached = PITH_DICT(d)}

\* C20: when the host runs drop or = with a dictionary of the root on top of
\* the stack (it got there by reference, by naming the dictionary), the
\* dictionary has not been freed when the builtin returns, and the root
\* still holds it.
C20_DictOperandsStayLive ==
    [][\A d \in RootDicts(rt) :
          (/\ rt.stack # << >>
           /\ rt.stack[Len(rt.stack)] = PITH_DICT(d)
           /\ rt.dicts[d].freed = 0
           /\ last'.op = "word"
           /\ last'.name \in {"drop", "="})
          => (d \in RootDicts(rt') /\ rt'.dicts[d].freed = 0)]_vars

\* C21: a call of the host for a slot that refers to itself or to a mutually
\* recursive slot returns to the host: the process is still alive, and the
\* call either succeeded or left the error of the full operand stack.
C21_RecursionReturns ==
    [][(/\ proj = "rec"
        /\ ~rt.crashed
        /\ last'.op = "word")
       => (/\ ~rt'.crashed
           /\ (last'.ok \/ (rt'.has_error /\ rt'.error = "Stack overflow")))]_vars

\* The places in the record of the last frame where the host started to run
\* the root ui slot, and where a signal was written.
UiStarts ==
    {k \in 1..Len(rt.log) :
        /\ rt.log[k].ev = "tok"
        /\ rt.log[k].depth = 1
        /\ pith_dict_lookup(rt, ROOT, "ui") # NULL_SLOT
        /\ rt.log[k].at = SlotAt(rt, pith_dict_lookup(rt, ROOT, "ui")).body_start}
SignalWrites == {k \in 1..Len(rt.log) : rt.log[k].ev = "sigwrite"}

\* C22: at the render of a frame no signal is dirty, and every signal write
\* of the frame (by the button block, by an event handler or by the ui slot
\* while it is run again) was followed by a run of the ui slot.
C22_WritesAreRebuilt ==
    (last.op = "frame" /\ last.ok) =>
        /\ ~pith_runtime_has_dirty_signals(rt)
        /\ \A w \in SignalWrites : \E u \in UiStarts : u > w

RECURSIVE Flat(_)
\* The tokens of a list of lines.
Flat(lines) == IF lines = << >> THEN << >> ELSE Head(lines) \o Flat(Tail(lines))

\* The tokens of the body range of a slot, without their line numbers.
BodyTokens(slot) ==
    [j \in 1..(slot.body_end - slot.body_start) |->
        [Tok(slot.body_start + j - 1) EXCEPT !.line = 0]]

\* C23: a dictionary of single-line slots and multi-line slots with their own
\* end, whose bodies may hold do and if constructs, is loaded as one root slot
\* that stops at the dictionary's own end, with one child slot per
\* declaration whose body range holds the tokens of that declaration's body.
C23_DictionarySlots ==
    last.op = "load" =>
        /\ last.ok
        /\ Len(rt.dicts[ROOT].slots) = 1
        /\ rt.dicts[ROOT].slots[1].name = "a"
        /\ IsDictSlot(rt.dicts[ROOT].slots[1])
        /\ rt.dicts[ROOT].slots[1].body_end = token_count - 2
        /\ LET slots == rt.dicts[rt.dicts[ROOT].slots[1].cached.dict].slots IN
           /\ Len(slots) = Len(proj)
           /\ \A i \in 1..Len(proj) :
                 /\ slots[i].name = SlotName(i)
                 /\ BodyTokens(slots[i]) = Flat(FormBody(proj[i]))

\* The slots of the root and of the dictionaries of the root whose body is
\* exactly a literal followed by the word signal: <<dictionary, slot index>>.
LiteralSignalSlots ==
    {ds \in UNION {{<<d, s>> : s \in 1..Len(rt.dicts[d].slots)} :
                      d \in {ROOT} \cup RootDicts(rt)} :
        LET slot == rt.dicts[ds[1]].slots[ds[2]] IN
        /\ slot.body_end - slot.body_start = 2
        /\ IsLiteral(Tok(slot.body_start))
        /\ Tok(slot.body_start + 1) = [W("signal") EXCEPT !.line = Tok(slot.body_start).line]}

\* C24: after a successful load every slot whose body is a literal followed
\* by signal, in a dictionary or at the root, caches a Signal of the
\* runtime's signal list; and a write name! to such a slot of the root with a
\* value on the stack succeeds and leaves a dirty signal.
C24_LiteralSignalsCached ==
    /\ [](Loaded =>
            \A ds \in LiteralSignalSlots :
               LET slot == rt.dicts[ds[1]].slots[ds[2]] IN
               /\ slot.is_cached
               /\ slot.cached.type = "signal"
               /\ slot.cached.signal \in 1..Len(rt.signals))
    /\ [][(/\ proj = "sig"
            /\ ~rt.has_error
            /\ rt.stack # << >>
            /\ last'.op = "word"
            /\ last'.name = "tot!")
           => (last'.ok /\ pith_runtime_has_dirty_signals(rt'))]_vars

\* The if and do tokens, and the end tokens, among the tokens a..b.
Opens(a, b)  == Cardinality({j \in a..b : Tok(j).type \in {"IF", "DO"}})
Closes(a, b) == Cardinality({j \in a..b : Tok(j).type = "END"})

\* The end that matches the if at token i: the first end after it that
\* closes one construct more than was opened after the if.
IfEnd(i) ==
    Min({j \in (i + 1)..(token_count - 1) :
            Tok(j).type = "END" /\ Closes(i + 1, j) = Opens(i + 1, j) + 1})

\* The else tokens of the if at token i: between the if and its end, with
\* every construct opened after the if closed again.
IfElses(i) ==
    {j \in (i + 1)..IfEnd(i) :
        Tok(j).type = "ELSE" /\ Opens(i + 1, j) = Closes(i + 1, j)}

\* The tokens of the branch the if at token i has to run for a condition.
BranchOf(i, cond) ==
    IF cond \notin Falsy
    THEN (i + 1)..((IF IfElses(i) # {} THEN Min(IfElses(i)) ELSE IfEnd(i)) - 1)
    ELSE IF IfElses(i) # {} THEN (Min(IfElses(i)) + 1)..(IfEnd(i) - 1)
    ELSE {}

\* The record of the call from the if at place k up to the next token of the
\* loop that ran the if.
After(k) ==
    LET same == {j \in (k + 1)..Len(rt.log) :
                    rt.log[j].ev = "tok" /\ rt.log[j].depth = rt.log[k].depth}
    IN IF same = {} THEN Len(rt.log) + 1 ELSE Min(same)

\* C25: every if that was executed popped exactly its condition; the tokens
\* run for it are tokens of the then-branch when the condition is truthy, of
\* the else-branch of the same nesting depth when it is falsy, and none
\* otherwise, starting with the first token of that branch; and the loop
\* goes on at the token after the end that matches the if.
C25_IfElse ==
    \A k \in Events("if") :
        LET e   == rt.log[k]
            ran == {rt.log[j].at : j \in {j \in (k + 1)..(After(k) - 1) :
                                             /\ rt.log[j].ev = "tok"
                                             /\ rt.log[j].depth = e.depth + 1}}
        IN /\ rt.log[k - 1].ev = "tok" /\ rt.log[k - 1].at = e.at
           /\ rt.log[k - 1].stack = Append(e.stack, e.val)
           /\ e.aux = IfEnd(e.at)
           /\ ran \subseteq BranchOf(e.at, e.val)
           /\ BranchOf(e.at, e.val) # {} => Min(BranchOf(e.at, e.val)) \in ran
           /\ After(k) <= Len(rt.log) => rt.log[After(k)].at = IfEnd(e.at) + 1
           /\ (last.ok /\ e.depth = 1 /\ Tok(IfEnd(e.at) + 1).type # "END")
              => After(k) <= Len(rt.log)

\* The content and the cursor of the buffer on the stack of runtime r.
Content(r) == pith_gapbuf_to_string(r.stack[1].gapbuf)
Cursor(r)  == r.stack[1].gapbuf.gap_start

\* text without the n characters after position c.
Without(text, c, n) == SubSeq(text, 1, c) \o SubSeq(text, c + n + 1, Len(text))

\* C26: the edits of a gap buffer are the edits of a plain string with a
\* cursor c.  insert(s) yields content[0,c) + s + content[c,length) and moves
\* the cursor to c + len(s), also when the gap has to grow; delete(n) with
\* n > 0 removes min(n, length - c) characters after the cursor and leaves the
\* cursor; delete(n) with n < 0 removes min(|n|, c) characters before the
\* cursor and moves the cursor back by as many.
C26_EditsLikeAString ==
    [][LET text == Content(rt)
           c    == Cursor(rt)
           n    == last'.arg
       IN /\ last'.op = "gap-insert" =>
                /\ last'.ok
                /\ Content(rt') = SubSeq(text, 1, c) \o InsertStrings[n]
                                  \o SubSeq(text, c + 1, Len(text))
                /\ Cursor(rt') = c + Len(InsertStrings[n])
          /\ (last'.op = "gap-delete" /\ n >= 0) =>
                /\ last'.ok
                /\ Content(rt') = Without(text, c, Min({n, Len(text) - c}))
                /\ Cursor(rt') = c
          /\ (last'.op = "gap-delete" /\ n < 0) =>
                /\ last'.ok
                /\ Content(rt') = Without(text, c - Min({0 - n, c}), Min({0 - n, c}))
                /\ Cursor(rt') = c - Min({0 - n, c})]_vars

\* Three characters were inserted in the middle of "ab" made by string>gap:
\* the gap of two had to grow, and a later delete took the character before
\* the cursor.
C26_Witness ==
    /\ proj = <<97, 98>>
    /\ last.op = "gap-delete" /\ last.arg = 0 - 1
    /\ Content(rt) = <<97, 120, 121, 98>>
    /\ Cursor(rt) = 3
    /\ rt.stack[1].gapbuf.capacity > Len(proj) + GAP_BUFFER_MIN_GAP

\* C27: after the creation of a gap buffer and after every insert, delete,
\* move, goto and gap expansion, the gap is one region of the buffer with
\* 0 <= gap_start <= gap_end <= capacity, and the content is as long as the
\* capacity less the gap.
C27_GapBounds ==
    LET gb == rt.stack[1].gapbuf IN
    /\ Len(gb.buffer) = gb.capacity
    /\ 0 <= gb.gap_start
    /\ gb.gap_start <= gb.gap_end
    /\ gb.gap_end <= gb.capacity
    /\ Len(Content(rt)) = gb.capacity - (gb.gap_end - gb.gap_start)
    /\ pith_gapbuf_length(gb) = Len(Content(rt))

\* A buffer made by new-gap took an insert longer than its gap and then a
\* delete of more characters than there are before the cursor.
C27_Witness ==
    /\ last.op = "gap-delete" /\ last.arg = 0 - INT_MAX - 1
    /\ rt.stack[1].gapbuf.capacity > GAP_BUFFER_INITIAL_SIZE
    /\ proj = << >>
    /\ rt.stack[1].gapbuf.gap_start = 0
    /\ rt.stack[1].gapbuf.gap_end = rt.stack[1].gapbuf.capacity

\* C28: an event for which the current dictionary has no handler slot
\* leaves the operand stack as it was when pith_runtime_handle_event was
\* called, and does not fill it up.
C28_UnhandledEventKeepsStack ==
    \A k \in Events("eventend") :
        /\ rt.log[k - 1].ev = "event"
        /\ rt.log[k].stack = rt.log[k - 1].stack

\* C29: a call that runs [ ... ] whose interior pops values that were on the
\* stack before the bracket (1 2 [ add ]) stays within the stack: every
\* array it builds holds no more items than the interior left above the
\* height recorded at the bracket, and no count below zero is ever taken
\* for a number of items to pop and to allocate.
C29_ArrayCountBounded ==
    [][(/\ ~rt.ub /\ ~rt.crashed
        /\ last'.op = "word"
        /\ last'.name \in {"under", "arr"})
       => (/\ ~rt'.ub /\ ~rt'.crashed
           /\ \A k \in {k \in 1..Len(rt'.log) : rt'.log[k].ev = "array"} :
                 /\ Len(rt'.log[k - 1].stack) >= rt'.log[k].aux
                 /\ Len(rt'.log[k].val.items)
                       <= Len(rt'.log[k - 1].stack) - rt'.log[k].aux)]_vars

\* C30: has applied to the result of remove on a dictionary and a key pushes
\* false, and get applied to it pushes nil, also when the dictionary has a
\* parent and only inherits the slot of that name.
C30_RemovedKeyIsGone ==
    (proj = "rec" /\ last.op = "word" /\ last.ok) =>
        /\ last.name \in {"rk", "ro"} => rt.stack[Len(rt.stack)] = PITH_BOOL(FALSE)
        /\ last.name = "gk" => rt.stack[Len(rt.stack)] = PITH_NIL

====
